---- MODULE Spec2Model ----
(***************************************************************************)
(* ReSTIR DI reservoirs and the spatial reuse kernel of the path tracer.   *)
(*                                                                         *)
(* Floats are modelled as extended rationals <<n, d>> with d >= 0:         *)
(*   d > 0          the finite value n/d, in lowest terms                  *)
(*   <<1, 0>>       +inf        <<-1, 0>>  -inf        <<0, 0>>  NaN       *)
(* The arithmetic follows IEEE-754 on the special values and is exact on   *)
(* the finite ones (no rounding, no negative zero).                        *)
(***************************************************************************)
EXTENDS Integers, Sequences, FiniteSets, TLC

\* ------------------------------------------------------------------ bounds
MaxOps == 3
MaxWeight == 2
MaxM == 2
ResX == 2
ResY == 2

\* ------------------------------------------------------- program constants
m_cap == 10

\* ------------------------------------------------------------------ floats
Abs(x) == IF x < 0 THEN -x ELSE x

Sign(x) == IF x < 0 THEN -1 ELSE IF x > 0 THEN 1 ELSE 0

RECURSIVE Gcd(_, _)
Gcd(a, b) == IF b = 0 THEN a ELSE Gcd(b, a % b)

\* the float of the pair n/d (d of any sign), in canonical form
FNorm(n, d) ==
    IF d = 0 THEN <<Sign(n), 0>>
    ELSE LET g == Gcd(Abs(n), Abs(d))
             s == Sign(d)
         IN  <<(s * n) \div g, (s * d) \div g>>

FInt(i) == <<i, 1>>
FZero == <<0, 1>>
FOne == <<1, 1>>
FInf == <<1, 0>>
FNaN == <<0, 0>>

IsNaN(a) == a = FNaN
IsInf(a) == a[2] = 0 /\ a[1] # 0
IsFinite(a) == a[2] > 0
IsNegative(a) == a[1] < 0

\* a + b
FAdd(a, b) ==
    IF a[2] = 0 /\ b[2] = 0
    THEN (IF a = b THEN a ELSE FNaN)
    ELSE FNorm(a[1] * b[2] + b[1] * a[2], a[2] * b[2])

\* a - b
FSub(a, b) == FAdd(a, <<-b[1], b[2]>>)

\* a * b
FMul(a, b) == FNorm(a[1] * b[1], a[2] * b[2])

\* a / b
FDiv(a, b) == FNorm(a[1] * b[2], a[2] * b[1])

\* a < b: false as soon as one side is NaN
FLt(a, b) ==
    /\ ~IsNaN(a)
    /\ ~IsNaN(b)
    /\ IF a[2] = 0 /\ b[2] = 0 THEN a[1] < b[1]
       ELSE IF a[2] = 0 THEN a[1] < 0
       ELSE IF b[2] = 0 THEN b[1] > 0
       ELSE a[1] * b[2] < b[1] * a[2]

\* a == b: false as soon as one side is NaN
FEq(a, b) == ~IsNaN(a) /\ ~IsNaN(b) /\ a = b

\* ----------------------------------------------------- rounded floats
\* the bits of mantissa a float keeps
MantissaBits == 6

\* n / d scaled by a power of two into [2^(MantissaBits-1), 2^MantissaBits),
\* with the power as up / down
RECURSIVE ScaleToMantissa(_, _, _, _)
ScaleToMantissa(n, d, up, down) ==
    IF n >= d * (2 ^ MantissaBits)
    THEN ScaleToMantissa(n, 2 * d, up, 2 * down)
    ELSE IF n < d * (2 ^ (MantissaBits - 1))
    THEN ScaleToMantissa(2 * n, d, 2 * up, down)
    ELSE [n |-> n, d |-> d, up |-> up, down |-> down]

\* the float nearest to a, ties to the even mantissa
FRound(a) ==
    IF a[2] = 0 \/ a[1] = 0 THEN a
    ELSE LET scaled == ScaleToMantissa(Abs(a[1]), a[2], 1, 1)
             floor == scaled.n \div scaled.d
             twice == 2 * (scaled.n % scaled.d)
             mantissa ==
                 IF twice > scaled.d \/ (twice = scaled.d /\ floor % 2 = 1)
                 THEN floor + 1 ELSE floor
         IN  FNorm(Sign(a[1]) * mantissa * scaled.down, scaled.up)

\* the operations of float arithmetic
RAdd(a, b) == FRound(FAdd(a, b))

RSub(a, b) == FRound(FSub(a, b))

RMul(a, b) == FRound(FMul(a, b))

RDiv(a, b) == FRound(FDiv(a, b))

\* ------------------------------------------------------------- reservoir
\* sanity_check: what it reports nothing about
sanity_check(res) ==
    /\ res.M >= 0
    /\ IsFinite(res.weight_sum) /\ ~IsNegative(res.weight_sum)
    /\ IsFinite(res.UCW) /\ ~IsNegative(res.UCW)
    /\ IsFinite(res.sample.target_function)
    /\ ~IsNegative(res.sample.target_function)

\* ReSTIRDISample: the light point is identified by its triangle index
ReSTIRDISample(tri, tf) ==
    [emissive_triangle_index |-> tri, target_function |-> tf]

DefaultSample == ReSTIRDISample(-1, FZero)

\* ReSTIRDIReservoir after construction
DefaultReservoir ==
    [M |-> 0, weight_sum |-> FZero, UCW |-> FZero, sample |-> DefaultSample]

\* variant: the weight is divided by the weight sum before this candidate
AcceptThresholdStaleSum(weight, weight_sum) ==
    FDiv(weight, FSub(weight_sum, weight))

\* the value the acceptance test compares the random number to
AcceptThreshold(weight, weight_sum) == FDiv(weight, weight_sum)

add_one_candidate(r, new_sample, weight, u) ==
    LET ws == FAdd(r.weight_sum, weight)
    IN  [r EXCEPT !.M = r.M + 1,
                  !.weight_sum = ws,
                  !.sample = IF FLt(u, AcceptThreshold(weight, ws))
                             THEN new_sample ELSE r.sample]

reservoir_sample_weight(other, mis_weight, target_function, jacobian) ==
    FMul(FMul(FMul(mis_weight, target_function), other.UCW), jacobian)

\* the value combine_with returns
combine_with_result(r, other, mis_weight, target_function, jacobian, u) ==
    LET rsw == reservoir_sample_weight(other, mis_weight, target_function, jacobian)
    IN  FLt(u, AcceptThreshold(rsw, FAdd(r.weight_sum, rsw)))

\* variant: a combined reservoir counts as one candidate
combine_with_counts_one(r, other, mis_weight, target_function, jacobian, u) ==
    LET rsw == reservoir_sample_weight(other, mis_weight, target_function, jacobian)
    IN  [r EXCEPT !.M = r.M + 1,
                  !.weight_sum = FAdd(r.weight_sum, rsw),
                  !.sample =
                      IF combine_with_result(r, other, mis_weight, target_function, jacobian, u)
                      THEN [other.sample EXCEPT !.target_function = target_function]
                      ELSE r.sample]

\* variant: the accepted sample keeps the target function cached by the other
combine_with_keeps_cached(r, other, mis_weight, target_function, jacobian, u) ==
    LET rsw == reservoir_sample_weight(other, mis_weight, target_function, jacobian)
    IN  [r EXCEPT !.M = r.M + other.M,
                  !.weight_sum = FAdd(r.weight_sum, rsw),
                  !.sample =
                      IF combine_with_result(r, other, mis_weight, target_function, jacobian, u)
                      THEN other.sample
                      ELSE r.sample]

\* the reservoir combine_with leaves
combine_with(r, other, mis_weight, target_function, jacobian, u) ==
    LET rsw == reservoir_sample_weight(other, mis_weight, target_function, jacobian)
    IN  [r EXCEPT !.M = r.M + other.M,
                  !.weight_sum = FAdd(r.weight_sum, rsw),
                  !.sample =
                      IF combine_with_result(r, other, mis_weight, target_function, jacobian, u)
                      THEN [other.sample EXCEPT !.target_function = target_function]
                      ELSE r.sample]

end(r) ==
    IF FEq(r.weight_sum, FZero)
    THEN [r EXCEPT !.UCW = FZero]
    ELSE [r EXCEPT !.UCW = FMul(FDiv(FOne, r.sample.target_function), r.weight_sum)]

\* variant: the denominator is not tested against zero
end_with_normalization_unguarded(r, numerator, denominator) ==
    IF FEq(r.weight_sum, FZero) \/ FEq(numerator, FZero)
    THEN [r EXCEPT !.UCW = FZero]
    ELSE [r EXCEPT !.UCW =
              FDiv(FMul(FMul(FDiv(FOne, r.sample.target_function), r.weight_sum),
                        numerator),
                   denominator)]

end_with_normalization(r, numerator, denominator) ==
    IF FEq(r.weight_sum, FZero) \/ FEq(denominator, FZero) \/ FEq(numerator, FZero)
    THEN [r EXCEPT !.UCW = FZero]
    ELSE [r EXCEPT !.UCW =
              FDiv(FMul(FMul(FDiv(FOne, r.sample.target_function), r.weight_sum),
                        numerator),
                   denominator)]

\* variant: the skipped neighbor's M replaces the running count
skip_zero_ucw_neighbor_assigns(r, neighbor) == [r EXCEPT !.M = neighbor.M]

skip_zero_ucw_neighbor_drops(r, neighbor) == r

\* spatial reuse, neighbor with UCW == 0: only its M is accumulated
skip_zero_ucw_neighbor(r, neighbor) == [r EXCEPT !.M = r.M + neighbor.M]

\* ------------------------------------------------ spatial reuse kernel
\* int2 res: the resolution of the viewport
Res == [x |-> ResX, y |-> ResY]

PixelCount == Res.x * Res.y

\* the (x, y) of the launched threads: the grid of thread blocks is rounded
\* up past res, here by one column and one row
LaunchGrid == (0..ResX) \X (0..ResY)

\* pixel_index = x + y * res.x
PixelIndexOf(x, y, res) == x + y * res.x

\* the kernel's guard: the invocation returns without doing anything
OutOfRangeInvocation(x, y, res) == PixelIndexOf(x, y, res) >= res.x * res.y

input_reservoir_buffer_reads_output(spatial) == spatial.output_reservoirs

\* the buffer the kernel reads neighbors from
input_reservoir_buffer(spatial) == spatial.input_reservoirs

\* the buffer the kernel writes its result to
output_reservoir_buffer(spatial) == spatial.output_reservoirs

\* unsigned int: <<high, low>>, the two 16 bit halves
Uint(n) == <<(n \div 65536) % 65536, n % 65536>>

RECURSIVE XorBits(_, _, _)
XorBits(a, b, width) ==
    IF width = 0 THEN 0
    ELSE ((a + b) % 2) + 2 * XorBits(a \div 2, b \div 2, width - 1)

\* x ^ y on 4 bits
XorNibble == [x \in 0..15 |-> [y \in 0..15 |-> XorBits(x, y, 4)]]

\* x ^ y on 16 bits
Xor16(x, y) ==
    XorNibble[x % 16][y % 16]
      + 16 * XorNibble[(x \div 16) % 16][(y \div 16) % 16]
      + 256 * XorNibble[(x \div 256) % 16][(y \div 256) % 16]
      + 4096 * XorNibble[x \div 4096][y \div 4096]

\* a ^ b
Xor(a, b) == <<Xor16(a[1], b[1]), Xor16(a[2], b[2])>>

\* a >> k, for k up to 16
Shr(a, k) ==
    LET p == 2 ^ k
    IN  <<a[1] \div p, (a[2] \div p) + ((a[1] % p) * (65536 \div p))>>

\* the 32 bits of the product of two 16 bit halves
Mul16(x, y) ==
    LET p0 == (x % 256) * y
        p1 == (x \div 256) * y
        sum == p0 + (p1 % 256) * 256
    IN  <<(sum \div 65536) + (p1 \div 256), sum % 65536>>

\* a * b, modulo 2^32
UintMul(a, b) ==
    LET low == Mul16(a[2], b[2])
    IN  <<(low[1] + Mul16(a[1], b[2])[2] + Mul16(a[2], b[1])[2]) % 65536,
          low[2]>>

\* wang_hash
wang_hash(seed) ==
    LET s1 == Xor(Xor(seed, Uint(61)), Shr(seed, 16))
        s2 == UintMul(s1, Uint(9))
        s3 == Xor(s2, Shr(s2, 4))
        s4 == UintMul(s3, Uint(668265261))
    IN  Xor(s4, Shr(s4, 15))

\* line 186-190: the seed of the invocation of pixel_index
Seed(render_settings, pixel_index) ==
    IF render_settings.freeze_random
    THEN wang_hash(Uint(pixel_index + 1))
    ELSE wang_hash(
             UintMul(UintMul(Uint(pixel_index + 1),
                             Uint(render_settings.sample_number + 1)),
                     Uint(render_settings.random_seed)))

\* the integer offsets sample_in_disk_uv, rotated and truncated, can give
\* within the reuse radius
NeighborOffsets ==
    {o \in (-1..1) \X (-1..1) : o[1] * o[1] + o[2] * o[2] <= 1}

get_neighbor_pixel_index_unchecked(neighbor_number, neighbor_reuse_count, center, res, offs) ==
    IF neighbor_number = neighbor_reuse_count
    THEN center.x + center.y * res.x
    ELSE (center.x + offs[neighbor_number + 1][1])
           + (center.y + offs[neighbor_number + 1][2]) * res.x

\* get_neighbor_pixel_index, with offs[n] the neighbor_offset_int of neighbor n
get_neighbor_pixel_index(neighbor_number, neighbor_reuse_count, center, res, offs) ==
    IF neighbor_number = neighbor_reuse_count
    THEN center.x + center.y * res.x
    ELSE LET nx == center.x + offs[neighbor_number + 1][1]
             ny == center.y + offs[neighbor_number + 1][2]
         IN  IF nx < 0 \/ nx >= res.x \/ ny < 0 \/ ny >= res.y
             THEN -1
             ELSE nx + ny * res.x

\* scene: luminance of bsdf * emission * cosine * geometry term for the
\* light sample of a triangle seen from the surface of a pixel
SceneLuminance(tri, pixel) == FInt((tri + pixel) % 3)

\* scene: the shadow ray from the surface of a pixel to the sample is free
SceneVisible(tri, pixel) == (tri + 2 * pixel) % 4 # 3

\* line 44-63: the float target_function, from what the sample and the
\* surface give: distance to the light sample, luminance of bsdf_color *
\* sample_emission and dot(shading_normal, sample_direction) for the sample
\* direction, and the dot of the direction with the light's normal. A sample
\* at distance 0 makes sample_direction 0 / 0, NaN in every component; what
\* hippt::max and the BSDF return for NaN is for the build to decide
\* (max_keeps_nan, bsdf_keeps_nan).
target_function_luminance(g) ==
    LET degenerate == FEq(g.distance_to_light, FZero)
        dot == IF degenerate THEN FNaN ELSE g.dot
        bsdf == IF degenerate
                THEN (IF g.bsdf_keeps_nan THEN FNaN ELSE FZero)
                ELSE g.bsdf
        cosine_term ==
            IF IsNaN(dot) THEN (IF g.max_keeps_nan THEN FNaN ELSE FZero)
            ELSE IF FLt(FZero, dot) THEN dot ELSE FZero
        cosine_at_light_source ==
            IF degenerate THEN FNaN
            ELSE IF IsNegative(g.cosine_at_light) THEN FSub(FZero, g.cosine_at_light)
            ELSE g.cosine_at_light
        geometry_term ==
            IF g.geometry_term_in_target_function
            THEN FDiv(cosine_at_light_source,
                      FMul(g.distance_to_light, g.distance_to_light))
            ELSE FOne
    IN  FMul(FMul(bsdf, cosine_term), geometry_term)

\* line 107: something lies on the segment from the shading point to the
\* light sample; a segment of length 0 holds nothing
evaluate_shadow_ray(occluder, distance_to_light) ==
    occluder /\ FLt(FZero, distance_to_light)

evaluate_target_function_ignores_occlusion(withVisibility, target_function, occluded) ==
    IF FEq(target_function, FZero) THEN [value |-> FZero, shadow_rays |-> 0]
    ELSE [value |-> target_function,
          shadow_rays |-> IF withVisibility THEN 1 ELSE 0]

\* line 64-69 and 98-111: the early exit on 0, then, in the variant with
\* visibility, the shadow ray and target_function *= visible
evaluate_target_function(withVisibility, target_function, occluded) ==
    IF FEq(target_function, FZero) THEN [value |-> FZero, shadow_rays |-> 0]
    ELSE IF withVisibility
         THEN [value |-> FMul(target_function,
                              IF occluded THEN FZero ELSE FOne),
               shadow_rays |-> 1]
         ELSE [value |-> target_function, shadow_rays |-> 0]

\* ReSTIR_DI_evaluate_target_function<withVisibility>
ReSTIR_DI_evaluate_target_function(withVisibility, sample, pixel) ==
    evaluate_target_function(withVisibility,
        SceneLuminance(sample.emissive_triangle_index, pixel),
        ~SceneVisible(sample.emissive_triangle_index, pixel)).value

\* the scenes of the model: in "grazing" the light direction from every
\* second surface is perpendicular to the normal of the light
Scenes == {"regular", "grazing"}

\* scene: |dot(-to_light_direction, light_source_normal)| from the surface
\* of a pixel to the light sample of a triangle
SceneCosineAtLight(scene, tri, pixel) ==
    IF (tri + pixel) % 2 = 0 THEN FOne
    ELSE IF scene = "grazing" THEN FZero ELSE <<1, 2>>

\* scene: distance from the surface of a pixel to the light sample
SceneDistanceToLight(scene, tri, pixel) == FOne

\* line 245-258: cosine_ratio * distance_squared_ratio, divisors as they are
jacobian_of(cosine_at_center, cosine_at_neighbor, distance_at_center, distance_at_neighbor) ==
    LET cosine_ratio == FDiv(cosine_at_center, cosine_at_neighbor)
        distance_squared_ratio ==
            FDiv(FMul(distance_at_neighbor, distance_at_neighbor),
                 FMul(distance_at_center, distance_at_center))
    IN  FMul(cosine_ratio, distance_squared_ratio)

\* the jacobian between the shading points of two pixels of the scene
SceneJacobian(scene, tri, center, neighbor) ==
    jacobian_of(SceneCosineAtLight(scene, tri, center),
                SceneCosineAtLight(scene, tri, neighbor),
                SceneDistanceToLight(scene, tri, center),
                SceneDistanceToLight(scene, tri, neighbor))

RECURSIVE NormalizationTermsUnweighted(_, _, _, _, _)
NormalizationTermsUnweighted(t, n, count, biasVisibility, input) ==
    IF n > count THEN [Z |-> FZero, nume |-> FZero, denom |-> FZero]
    ELSE LET rest == NormalizationTermsUnweighted(t, n + 1, count,
                         biasVisibility, input)
             idx == get_neighbor_pixel_index(n, count, t.center, Res, t.offs)
             tfn == IF n = count
                    THEN t.new_reservoir.sample.target_function
                    ELSE ReSTIR_DI_evaluate_target_function(
                             biasVisibility, t.new_reservoir.sample, idx)
         IN  IF idx = -1 \/ ~FLt(FZero, tfn) THEN rest
             ELSE [Z |-> FAdd(rest.Z, FInt(input[idx].M)),
                   nume |-> IF n = t.selected_neighbor
                            THEN FAdd(rest.nume, tfn) ELSE rest.nume,
                   denom |-> FAdd(rest.denom, tfn)]

RECURSIVE NormalizationTermsCounting(_, _, _, _, _)
NormalizationTermsCounting(t, n, count, biasVisibility, input) ==
    IF n > count THEN [Z |-> FZero, nume |-> FZero, denom |-> FZero]
    ELSE LET rest == NormalizationTermsCounting(t, n + 1, count,
                         biasVisibility, input)
             idx == get_neighbor_pixel_index(n, count, t.center, Res, t.offs)
             tfn == IF n = count
                    THEN t.new_reservoir.sample.target_function
                    ELSE ReSTIR_DI_evaluate_target_function(
                             biasVisibility, t.new_reservoir.sample, idx)
         IN  IF idx = -1 \/ ~FLt(FZero, tfn) THEN rest
             ELSE LET term == FMul(tfn, FInt(input[idx].M))
                  IN  [Z |-> FAdd(rest.Z, FOne),
                       nume |-> IF n = t.selected_neighbor
                                THEN FAdd(rest.nume, term) ELSE rest.nume,
                       denom |-> FAdd(rest.denom, term)]

\* the bias-correction loop: Z, mis_like_nume and mis_like_denom over the
\* neighbors from n on
RECURSIVE NormalizationTerms(_, _, _, _, _)
NormalizationTerms(t, n, count, biasVisibility, input) ==
    IF n > count THEN [Z |-> FZero, nume |-> FZero, denom |-> FZero]
    ELSE LET rest == NormalizationTerms(t, n + 1, count, biasVisibility, input)
             idx == get_neighbor_pixel_index(n, count, t.center, Res, t.offs)
             tfn == IF n = count
                    THEN t.new_reservoir.sample.target_function
                    ELSE ReSTIR_DI_evaluate_target_function(
                             biasVisibility, t.new_reservoir.sample, idx)
         IN  IF idx = -1 \/ ~FLt(FZero, tfn) THEN rest
             ELSE LET term == FMul(tfn, FInt(input[idx].M))
                  IN  [Z |-> FAdd(rest.Z, FInt(input[idx].M)),
                       nume |-> IF n = t.selected_neighbor
                                THEN FAdd(rest.nume, term) ELSE rest.nume,
                       denom |-> FAdd(rest.denom, term)]

\* the loop's terms when the reservoir holds no sample (triangle -1): the
\* target function at a neighbor is then read past the start of the scene
\* buffers and comes out as any value, garbage when positive
RECURSIVE NormalizationTermsOfGarbage(_, _, _, _, _)
NormalizationTermsOfGarbage(t, n, count, garbage, input) ==
    IF n > count THEN [Z |-> FZero, nume |-> FZero, denom |-> FZero]
    ELSE LET rest == NormalizationTermsOfGarbage(t, n + 1, count, garbage, input)
             idx == get_neighbor_pixel_index(n, count, t.center, Res, t.offs)
             tfn == IF n = count
                    THEN t.new_reservoir.sample.target_function
                    ELSE garbage
         IN  IF idx = -1 \/ ~FLt(FZero, tfn) THEN rest
             ELSE LET term == FMul(tfn, FInt(input[idx].M))
                  IN  [Z |-> FAdd(rest.Z, FInt(input[idx].M)),
                       nume |-> IF n = t.selected_neighbor
                                THEN FAdd(rest.nume, term) ELSE rest.nume,
                       denom |-> FAdd(rest.denom, term)]

\* line 300-353: what the bias-correction loop can leave in Z, mis_like_nume
\* and mis_like_denom
NormalizationOutcomes(t, count, biasVisibility, input) ==
    IF ~FLt(FZero, t.new_reservoir.weight_sum)
    THEN {[Z |-> FZero, nume |-> FZero, denom |-> FZero]}
    ELSE IF t.new_reservoir.sample.emissive_triangle_index = -1
    THEN {NormalizationTermsOfGarbage(t, 0, count, garbage, input) :
              garbage \in {FZero, FOne}}
    ELSE {NormalizationTerms(t, 0, count, biasVisibility, input)}

\* ReSTIRDISettings: the thresholds of the neighbor similarity heuristics
normal_similarity_angle_precomp == <<906307787, 1000000000>>

plane_distance_threshold == <<1, 10>>

roughness_similarity_threshold == <<1, 4>>

\* G-buffer: shading normal, first hit and roughness of the surface of a pixel
GBufferShadingNormal(pixel) == IF pixel % 2 = 0 THEN <<0, 1>> ELSE <<1, 0>>

GBufferFirstHit(pixel) == <<pixel % ResX, pixel \div ResX>>

GBufferRoughness(pixel) == IF pixel < ResX THEN <<1, 10>> ELSE <<9, 10>>

\* the neighbor's surface is within the three thresholds of the center's:
\* cosine between the normals, distance to the center's plane, roughness
SurfacesSimilar(center, neighbor) ==
    LET nc == GBufferShadingNormal(center)
        nn == GBufferShadingNormal(neighbor)
        pc == GBufferFirstHit(center)
        pn == GBufferFirstHit(neighbor)
        cosine == FInt(nc[1] * nn[1] + nc[2] * nn[2])
        plane_distance ==
            FInt(Abs((pn[1] - pc[1]) * nc[1] + (pn[2] - pc[2]) * nc[2]))
        roughness_difference ==
            FSub(GBufferRoughness(center), GBufferRoughness(neighbor))
    IN  /\ ~FLt(cosine, normal_similarity_angle_precomp)
        /\ ~FLt(plane_distance_threshold, plane_distance)
        /\ ~FLt(roughness_similarity_threshold, roughness_difference)
        /\ ~FLt(roughness_difference,
                FSub(FZero, roughness_similarity_threshold))

\* a reservoir as a previous pass leaves it in the buffer for a pixel
InputReservoir(variant, pixel) ==
    LET tri == (pixel + variant) % 2
        tf == SceneLuminance(tri, pixel)
    IN  [M |-> IF (pixel + variant) % 2 = 0 THEN m_cap ELSE 1,
         weight_sum |-> tf,
         UCW |-> IF FEq(tf, FZero) \/ (pixel + 2 * variant) % 3 = 0
                 THEN FZero ELSE FOne,
         sample |-> ReSTIRDISample(tri, tf)]

\* --------------------------------------------------- state of the model
VARIABLES
    r,          \* the reservoir under construction
    call,       \* the last call made on it: operation, arguments, result
    nops,       \* add_one_candidate / combine_with calls since construction
    sumW,       \* history: sum of the weights and resampling weights passed in
    nAdd,       \* history: number of add_one_candidate calls
    sumOtherM,  \* history: sum of other.M over the combine_with calls
    sumSkippedM, \* history: sum of the M of the skipped zero-UCW neighbors
    valid,      \* history: every weight passed in was non-negative and not NaN
    cands,      \* history: the weights streamed in, while only candidates were
    dist,       \* dist[k]: probability that candidate k is the stored sample
    settings,   \* ReSTIRDISettings and compile options of the spatial pass
    mem,        \* the reservoir buffers: mem[buffer][pixel index]
    thr,        \* thr[<<x, y>>]: locals and position of a kernel invocation
    writes,     \* history: every buffer write, by whom and where
    observed,   \* history: an invocation read an entry another one had written
    lateRead,   \* history: an invocation read a pixel another one had finished
    rng,        \* rng[seed]: the numbers a generator of this seed has given so far
    fcfg,       \* the frame's ReSTIRDISettings: which passes run, on which buffers
    fpass,      \* the pass the host has launched: frame, stage, iteration
    fbuf,       \* fbuf[buffer][pixel]: the pass that last wrote the reservoir
    fdone,      \* the pixels whose invocation of the current pass has finished
    flog,       \* history: the passes begun in this frame, in order
    fread,      \* history: what the current pass read of the previous pass
    ftread,     \* history: what the temporal pass read of the last frame
    lastFinal,  \* history: the last pass of the previous frame
    pcall,      \* a call of a device function: name, arguments, result
    pt,         \* the path tracer kernel: frame, pixel buffers, invocations
    options,    \* the GPUKernelCompilerOptions objects and their storage
    interop     \* an OpenGLInteropBuffer and the graphics resources

apiVars ==
    <<r, call, nops, sumW, nAdd, sumOtherM, sumSkippedM, valid, cands, dist>>

kernelVars == <<settings, mem, thr, writes, observed, lateRead, rng>>

frameVars == <<fcfg, fpass, fbuf, fdone, flog, fread, ftread, lastFinal>>

hostVars == <<pt, options, interop>>

\* the path tracer kernel is not launched
NoPathTracer == [launched |-> FALSE]

IdlePathTracer == pt = NoPathTracer

\* no compiler options object exists
NoOptions == [objects |-> <<>>, overflow |-> FALSE]

IdleOptions == options = NoOptions

\* no interop buffer exists
NoInterop == [constructed |-> FALSE]

IdleInterop == interop = NoInterop

\* no device function called on its own
NoPureCall == [fn |-> "none", args |-> <<>>, done |-> FALSE, out |-> <<>>]

IdlePureCall == pcall = NoPureCall

\* ------------------------------------------------------ inputs of the API
Weights == {FInt(i) : i \in 0..MaxWeight}

\* target function values: zero, and two positive ones
TargetFunctions == {FZero, FOne, FInt(2)}

\* values of the random stream, uniform on [0, 1)
Draws == {FZero, <<1, 2>>, <<3, 4>>}

Jacobians == {FOne, FInt(2)}

MisWeights == {FOne}

Normalizations == {FZero, FOne, FInt(2)}

\* finalized reservoirs handed to combine_with
OtherReservoirs(tri) ==
    {[M |-> m, weight_sum |-> FZero, UCW |-> ucw,
      sample |-> ReSTIRDISample(tri, FInt(2))] :
        m \in {1, MaxM}, ucw \in {FZero, FOne, FInf}}

ValidWeight(w) == ~IsNaN(w) /\ ~IsNegative(w)

NoCall ==
    [op |-> "new", ret |-> FALSE, sample |-> DefaultSample,
     tf |-> FZero, num |-> FZero, den |-> FZero]

\* P(u < t) for u uniform on [0, 1)
AcceptProbability(weight, weight_sum) ==
    LET t == AcceptThreshold(weight, weight_sum)
    IN  IF IsNaN(t) \/ ~FLt(FZero, t) THEN FZero
        ELSE IF FLt(t, FOne) THEN t ELSE FOne

RECURSIVE FSum(_)
FSum(s) == IF s = <<>> THEN FZero ELSE FAdd(Head(s), FSum(Tail(s)))

Ended == call.op \in {"end", "end_with_normalization"}

\* ------------------------------------------------------------- actions
InitApi ==
    /\ r = DefaultReservoir
    /\ call = NoCall
    /\ nops = 0
    /\ sumW = FZero
    /\ nAdd = 0
    /\ sumOtherM = 0
    /\ sumSkippedM = 0
    /\ valid = TRUE
    /\ cands = <<>>
    /\ dist = <<>>

AddOneCandidate ==
    /\ ~Ended
    /\ nops < MaxOps
    /\ \E weight \in Weights, tf \in TargetFunctions, u \in Draws :
          LET new_sample == ReSTIRDISample(nops + 1, tf)
              p == AcceptProbability(weight, FAdd(r.weight_sum, weight))
          IN  /\ r' = add_one_candidate(r, new_sample, weight, u)
              /\ call' = [NoCall EXCEPT !.op = "add_one_candidate",
                                        !.sample = new_sample]
              /\ sumW' = FAdd(sumW, weight)
              /\ IF Len(cands) = nops
                 THEN /\ cands' = Append(cands, weight)
                      /\ dist' = Append([k \in 1..Len(dist) |->
                                            FMul(dist[k], FSub(FOne, p))], p)
                 ELSE UNCHANGED <<cands, dist>>
    /\ nops' = nops + 1
    /\ nAdd' = nAdd + 1
    /\ UNCHANGED <<sumOtherM, sumSkippedM, valid, kernelVars, frameVars, pcall, hostVars>>

CombineWith ==
    /\ ~Ended
    /\ nops < MaxOps
    /\ \E other \in OtherReservoirs(nops + 1), mis \in MisWeights,
          tf \in TargetFunctions, jac \in Jacobians, u \in Draws :
          /\ r' = combine_with(r, other, mis, tf, jac, u)
          /\ call' = [NoCall EXCEPT
                         !.op = "combine_with",
                         !.ret = combine_with_result(r, other, mis, tf, jac, u),
                         !.sample = other.sample,
                         !.tf = tf]
          /\ sumW' = FAdd(sumW, FMul(mis, FMul(tf, FMul(other.UCW, jac))))
          /\ sumOtherM' = sumOtherM + other.M
          /\ valid' = (valid /\ ValidWeight(
                 reservoir_sample_weight(other, mis, tf, jac)))
    /\ nops' = nops + 1
    /\ cands' = <<>>
    /\ dist' = <<>>
    /\ UNCHANGED <<nAdd, sumSkippedM, kernelVars, frameVars, pcall, hostVars>>

\* the spatial reuse loop meets a neighbor whose UCW is zero
SkipZeroUCWNeighbor ==
    /\ ~Ended
    /\ nops < MaxOps
    /\ \E m \in {0, MaxM} :
          LET neighbor == [DefaultReservoir EXCEPT !.M = m]
          IN  /\ r' = skip_zero_ucw_neighbor(r, neighbor)
              /\ sumSkippedM' = sumSkippedM + m
    /\ call' = [NoCall EXCEPT !.op = "skip"]
    /\ nops' = nops + 1
    /\ cands' = <<>>
    /\ dist' = <<>>
    /\ UNCHANGED <<sumW, nAdd, sumOtherM, valid, kernelVars, frameVars, pcall, hostVars>>

End ==
    /\ ~Ended
    /\ r' = end(r)
    /\ call' = [NoCall EXCEPT !.op = "end"]
    /\ UNCHANGED <<nops, sumW, nAdd, sumOtherM, sumSkippedM, valid, cands, dist,
                   kernelVars, frameVars, pcall, hostVars>>

EndWithNormalization ==
    /\ ~Ended
    /\ \E num \in Normalizations, den \in Normalizations :
          /\ r' = end_with_normalization(r, num, den)
          /\ call' = [NoCall EXCEPT !.op = "end_with_normalization",
                                    !.num = num, !.den = den]
    /\ UNCHANGED <<nops, sumW, nAdd, sumOtherM, sumSkippedM, valid, cands, dist,
                   kernelVars, frameVars, pcall, hostVars>>

\* a new reservoir is constructed for the next pixel or pass
NewReservoir ==
    /\ Ended
    /\ r' = DefaultReservoir
    /\ call' = NoCall
    /\ nops' = 0
    /\ sumW' = FZero
    /\ nAdd' = 0
    /\ sumOtherM' = 0
    /\ sumSkippedM' = 0
    /\ valid' = TRUE
    /\ cands' = <<>>
    /\ dist' = <<>>
    /\ UNCHANGED <<kernelVars, frameVars, pcall, hostVars>>

\* ------------------------------------------- spatial reuse kernel pass
Buffers == {"A", "B"}

Unwritten == [DefaultReservoir EXCEPT !.M = -1]

\* the host alternates the two buffers between the spatial reuse iterations
\* the first iteration reads what the pass before it wrote
PingPongBuffers(iteration, first_input, a, b) ==
    IF iteration = 0 THEN [input |-> first_input, output |-> b]
    ELSE IF iteration % 2 = 1 THEN [input |-> b, output |-> a]
    ELSE [input |-> a, output |-> b]

\* SpatialPassSettings as the host hands it to the kernel
SpatialPassSettings(count, buffers) ==
    [do_spatial_reuse_pass |-> TRUE,
     spatial_reuse_neighbor_count |-> count,
     input_reservoirs |-> buffers.input,
     output_reservoirs |-> buffers.output]

NoThread ==
    [pc |-> "idle", center |-> [x |-> 0, y |-> 0], pixel_index |-> 0,
     new_reservoir |-> DefaultReservoir, neighbor |-> 0,
     selected_neighbor |-> 0, offs |-> <<>>,
     Z |-> FZero, mis_like_nume |-> FZero, mis_like_denom |-> FZero,
     finalized |-> 0, combined |-> {}, seed |-> <<0, 0>>, drawn |-> 0,
     supplier |-> -1, resampled |-> <<>>, normalized |-> <<>>]

IdleKernel ==
    /\ settings = [spatial_pass |-> SpatialPassSettings(0, PingPongBuffers(0, "A", "A", "B")),
                   targetVisibility |-> FALSE, biasVisibility |-> FALSE,
                   scene |-> "regular",
                   freeze_random |-> FALSE, sample_number |-> 0,
                   random_seed |-> 1]
    /\ rng = <<>>
    /\ mem = [b \in Buffers |-> <<>>]
    /\ thr = [id \in {} |-> NoThread]
    /\ writes = {}
    /\ observed = FALSE
    /\ lateRead = FALSE

\* the pairs of invocations of the launch grid
Launches == {S \in SUBSET LaunchGrid : Cardinality(S) = 2}

\* a launch of the pass over one of the scenes
InitKernelIn(scenes, randoms) ==
    /\ \E count \in {0, 1}, tv \in BOOLEAN, bv \in BOOLEAN, iteration \in {0, 1},
          scene \in scenes, random \in randoms :
          /\ settings =
                [spatial_pass |->
                     SpatialPassSettings(count,
                         PingPongBuffers(iteration, "A", "A", "B")),
                 targetVisibility |-> tv, biasVisibility |-> bv,
                 scene |-> scene,
                 freeze_random |-> random.freeze_random,
                 sample_number |-> random.sample_number,
                 random_seed |-> random.random_seed]
          /\ mem = [b \in Buffers |->
                       [i \in 0..(PixelCount - 1) |->
                           IF b = PingPongBuffers(iteration, "A", "A", "B").input
                           THEN InputReservoir(iteration, i)
                           ELSE Unwritten]]
    /\ \E S \in Launches :
          thr = [id \in S |->
                    [NoThread EXCEPT !.pc = "launched",
                                     !.center = [x |-> id[1], y |-> id[2]]]]
    /\ writes = {}
    /\ observed = FALSE
    /\ lateRead = FALSE
    /\ rng = <<>>

MaxSampleNumber == 1
MaxRandomSeed == 1

\* render_settings.freeze_random, render_settings.sample_number and
\* render_data.random_seed of a launch
Randoms ==
    [freeze_random : BOOLEAN, sample_number : 0..MaxSampleNumber,
     random_seed : 1..MaxRandomSeed]

\* one frame's sample number and random seed
OneRandom ==
    {[freeze_random |-> FALSE, sample_number |-> 0, random_seed |-> 1]}

InitKernel == InitKernelIn({"regular"}, OneRandom)

\* the invocations of the launch that seed their generator with seed
SeededWith(seed) ==
    {id \in DOMAIN thr :
        /\ ~OutOfRangeInvocation(id[1], id[2], Res)
        /\ Seed(settings, PixelIndexOf(id[1], id[2], Res)) = seed}

\* the generator of a seed gives its k-th number: the one it has given
\* before for this seed, any of the possible ones the first time. The
\* numbers given are kept for the seeds that several invocations have.
RandomNumber(seed, k, value) ==
    LET given == IF seed \in DOMAIN rng THEN rng[seed] ELSE <<>>
    IN  /\ k <= Len(given) => value = given[k]
        /\ rng' = IF k <= Len(given) \/ Cardinality(SeededWith(seed)) < 2
                  THEN rng
                  ELSE (seed :> Append(given, value)) @@ rng

Count == settings.spatial_pass.spatial_reuse_neighbor_count

InputBuffer == mem[input_reservoir_buffer(settings.spatial_pass)]

\* invocation id reads the entries idxs of the input buffer
ReadInput(id, idxs) ==
    /\ observed' =
          (observed \/ \E w \in writes :
               /\ w.by # id
               /\ w.buffer = input_reservoir_buffer(settings.spatial_pass)
               /\ w.index \in idxs)
    /\ lateRead' =
          (lateRead \/ \E w \in writes : w.by # id /\ w.index \in idxs)

\* the entries the bias-correction loop reads
NormalizationReads(t) ==
    IF FLt(FZero, t.new_reservoir.weight_sum)
    THEN {get_neighbor_pixel_index(n, Count, t.center, Res, t.offs) :
             n \in 0..Count} \ {-1}
    ELSE {}

\* line 181-183: the guard on pixel_index
KReturn(id) ==
    /\ thr[id].pc = "launched"
    /\ OutOfRangeInvocation(id[1], id[2], Res)
    /\ thr' = [thr EXCEPT ![id].pc = "returned"]
    /\ UNCHANGED <<settings, rng, mem, writes, observed, lateRead, apiVars, frameVars, pcall, hostVars>>

\* line 185-213: seed, rotation of the neighbor pattern, locals
KStart(id) ==
    /\ thr[id].pc = "launched"
    /\ ~OutOfRangeInvocation(id[1], id[2], Res)
    /\ LET pixel_index == PixelIndexOf(id[1], id[2], Res)
           seed == Seed(settings, pixel_index)
       IN  \E offs \in [1..Count -> NeighborOffsets] :
              /\ RandomNumber(seed, 1, offs)
              /\ thr' = [thr EXCEPT ![id].pc = "resample",
                                    ![id].pixel_index = pixel_index,
                                    ![id].seed = seed,
                                    ![id].drawn = 1,
                                    ![id].offs = offs]
    /\ UNCHANGED <<settings, mem, writes, observed, lateRead, apiVars, frameVars, pcall, hostVars>>

NeighborIndexOfCenter(t) ==
    get_neighbor_pixel_index(Count, Count, t.center, Res, t.offs)

\* line 218: the index the resampling loop gets for its neighbor
NeighborIndex(t) ==
    get_neighbor_pixel_index(t.neighbor, Count, t.center, Res, t.offs)

NormalizationIndicesRedrawn(t) ==
    IF FLt(FZero, t.new_reservoir.weight_sum)
    THEN [j \in 1..(Count + 1) |->
             get_neighbor_pixel_index(j - 1, Count, t.center, Res,
                 [n \in DOMAIN t.offs |->
                     IF t.drawn > 1
                     THEN <<0 - t.offs[n][1], 0 - t.offs[n][2]>>
                     ELSE t.offs[n]])]
    ELSE <<>>

\* line 310: the indices the bias-correction loop gets, neighbor by neighbor
NormalizationIndices(t) ==
    IF FLt(FZero, t.new_reservoir.weight_sum)
    THEN [j \in 1..(Count + 1) |->
             get_neighbor_pixel_index(j - 1, Count, t.center, Res, t.offs)]
    ELSE <<>>

\* line 218-223: the neighbor is outside of the viewport
KNeighborOutOfViewport(id) ==
    /\ thr[id].pc = "resample"
    /\ thr[id].neighbor < Count + 1
    /\ NeighborIndex(thr[id]) = -1
    /\ thr' = [thr EXCEPT ![id].neighbor = @ + 1,
                          ![id].resampled = Append(@, -1)]
    /\ UNCHANGED <<settings, rng, mem, writes, observed, lateRead, apiVars, frameVars, pcall, hostVars>>

\* line 225-230: the neighbor's reservoir has a zero UCW
KSkipZeroUCW(id) ==
    LET t == thr[id]
        idx == NeighborIndex(t)
    IN  /\ t.pc = "resample"
        /\ t.neighbor < Count + 1
        /\ idx # -1
        /\ FEq(InputBuffer[idx].UCW, FZero)
        /\ thr' = [thr EXCEPT
                      ![id].new_reservoir =
                          skip_zero_ucw_neighbor(t.new_reservoir, InputBuffer[idx]),
                      ![id].resampled = Append(@, idx),
                      ![id].neighbor = @ + 1]
        /\ ReadInput(id, {idx})
        /\ UNCHANGED <<settings, rng, mem, writes, apiVars, frameVars, pcall, hostVars>>

\* line 232-296: target function at the center, jacobian, combine_with
KCombine(id) ==
    LET t == thr[id]
        idx == NeighborIndex(t)
    IN  /\ t.pc = "resample"
        /\ t.neighbor < Count + 1
        /\ idx # -1
        /\ ~FEq(InputBuffer[idx].UCW, FZero)
        /\ LET neighbor_reservoir == InputBuffer[idx]
               target_function_at_center ==
                   IF t.neighbor = Count
                   THEN neighbor_reservoir.sample.target_function
                   ELSE ReSTIR_DI_evaluate_target_function(
                            settings.targetVisibility,
                            neighbor_reservoir.sample, t.pixel_index)
               jacobian_determinant ==
                   IF t.neighbor # Count
                   THEN SceneJacobian(settings.scene,
                            neighbor_reservoir.sample.emissive_triangle_index,
                            t.pixel_index, idx)
                   ELSE FOne
               mis_weight == FOne
           IN  \E u \in Draws :
                  /\ RandomNumber(t.seed, t.drawn + 1, u)
                  /\ thr' = [thr EXCEPT
                      ![id].drawn = @ + 1,
                      ![id].new_reservoir =
                          combine_with(t.new_reservoir, neighbor_reservoir,
                              mis_weight, target_function_at_center,
                              jacobian_determinant, u),
                      ![id].selected_neighbor =
                          IF combine_with_result(t.new_reservoir,
                                 neighbor_reservoir, mis_weight,
                                 target_function_at_center,
                                 jacobian_determinant, u)
                          THEN t.neighbor ELSE @,
                      ![id].combined = @ \cup {idx},
                      ![id].supplier =
                          IF combine_with_result(t.new_reservoir,
                                 neighbor_reservoir, mis_weight,
                                 target_function_at_center,
                                 jacobian_determinant, u)
                          THEN idx ELSE @,
                      ![id].resampled = Append(@, idx),
                      ![id].neighbor = @ + 1]
        /\ ReadInput(id, {idx})
        /\ UNCHANGED <<settings, mem, writes, apiVars, frameVars, pcall, hostVars>>

KNormalizeWithoutEnd(id) ==
    /\ thr[id].pc = "resample"
    /\ thr[id].neighbor = Count + 1
    /\ thr' = [thr EXCEPT ![id].pc = "finalized"]
    /\ UNCHANGED <<settings, rng, mem, writes, observed, lateRead, apiVars, frameVars, pcall, hostVars>>

\* line 300-363: bias-correction terms, then the reservoir is finalized
KNormalize(id) ==
    LET t == thr[id]
    IN  /\ t.pc = "resample"
        /\ t.neighbor = Count + 1
        /\ \E terms \in NormalizationOutcomes(t, Count,
                              settings.biasVisibility, InputBuffer) :
              thr' = [thr EXCEPT
                         ![id].pc = "finalized",
                         ![id].Z = terms.Z,
                         ![id].mis_like_nume = terms.nume,
                         ![id].mis_like_denom = terms.denom,
                         ![id].finalized = @ + 1,
                         ![id].normalized = NormalizationIndices(t),
                         ![id].new_reservoir =
                             end_with_normalization(t.new_reservoir,
                                 terms.nume, terms.denom)]
        /\ ReadInput(id, NormalizationReads(t))
        /\ UNCHANGED <<settings, rng, mem, writes, apiVars, frameVars, pcall, hostVars>>

\* line 365: the reservoir is stored in the output buffer
KWrite(id) ==
    LET t == thr[id]
        out == output_reservoir_buffer(settings.spatial_pass)
    IN  /\ t.pc = "finalized"
        /\ mem' = [mem EXCEPT ![out][t.pixel_index] = t.new_reservoir]
        /\ writes' = writes \cup
               {[by |-> id, buffer |-> out, index |-> t.pixel_index]}
        /\ thr' = [thr EXCEPT ![id].pc = "done"]
        /\ UNCHANGED <<settings, rng, observed, lateRead, apiVars, frameVars, pcall, hostVars>>

\* ------------------------------------------------- the passes of a frame
\* The host code that configures and launches the passes is not among the
\* sources at hand; this part follows the pass pipeline of the renderer's
\* description, over the settings structures of ReSTIRDISettings.h.
MaxFrames == 2
MaxPasses == 2
FramePixels == 2

Pixels == 0..(FramePixels - 1)

\* the reservoir buffers, each double-buffered frame to frame
FrameBuffers == {"I", "T", "A", "B"} \X {0, 1}

\* a buffer entry before any pass wrote it
Cleared == [frame |-> -1, stage |-> "cleared", iteration |-> 0]

\* ReSTIRDISettings at the start of a frame
ReSTIRDISettings(frame, temporal, spatial, passes, last_output) ==
    [initial_candidates |-> [output_reservoirs |-> <<"I", frame % 2>>],
     temporal_pass |->
         [do_temporal_reuse_pass |-> temporal,
          input_reservoirs |-> last_output,
          output_reservoirs |-> <<"T", frame % 2>>],
     spatial_pass |->
         [do_spatial_reuse_pass |-> spatial,
          number_of_passes |-> passes,
          input_reservoirs |-> <<"A", frame % 2>>,
          output_reservoirs |-> <<"B", frame % 2>>],
     restir_output_reservoirs |-> last_output]

\* the frame settings a user can pick: temporal reuse or not, and no
\* spatial reuse or 1..MaxPasses iterations of it
FrameChoices ==
    {[temporal |-> t, spatial |-> n > 0, passes |-> IF n > 0 THEN n ELSE 1] :
        t \in BOOLEAN, n \in 0..MaxPasses}

\* the buffer a pass writes
PassOutput(cfg, pass) ==
    CASE pass.stage = "initial" -> cfg.initial_candidates.output_reservoirs
      [] pass.stage = "temporal" -> cfg.temporal_pass.output_reservoirs
      [] pass.stage = "spatial" -> output_reservoir_buffer(cfg.spatial_pass)
      [] OTHER -> cfg.restir_output_reservoirs

\* the pass that follows pass
NextStage(cfg, pass) ==
    LET first_spatial ==
            IF cfg.spatial_pass.do_spatial_reuse_pass
            THEN [stage |-> "spatial", iteration |-> 0]
            ELSE [stage |-> "output", iteration |-> 0]
    IN  CASE pass.stage = "initial" ->
                 IF cfg.temporal_pass.do_temporal_reuse_pass
                 THEN [stage |-> "temporal", iteration |-> 0]
                 ELSE first_spatial
          [] pass.stage = "temporal" -> first_spatial
          [] OTHER ->
                 IF pass.iteration + 1 < cfg.spatial_pass.number_of_passes
                 THEN [stage |-> "spatial", iteration |-> pass.iteration + 1]
                 ELSE [stage |-> "output", iteration |-> 0]

PassCompleteSomePixel(done) == done # {}

\* the barrier between two passes: every invocation has finished
PassComplete(done) == done = Pixels

IdleFrame ==
    /\ fcfg = ReSTIRDISettings(0, FALSE, FALSE, 1, <<"I", 1>>)
    /\ fpass = [frame |-> 0, stage |-> "idle", iteration |-> 0]
    /\ fbuf = [b \in FrameBuffers |-> [p \in Pixels |-> Cleared]]
    /\ fdone = {}
    /\ flog = <<>>
    /\ fread = {}
    /\ ftread = {}
    /\ lastFinal = Cleared

InitFrame ==
    /\ \E c \in FrameChoices :
          fcfg = ReSTIRDISettings(0, c.temporal, c.spatial, c.passes,
                                  <<"I", 1>>)
    /\ fpass = [frame |-> 0, stage |-> "initial", iteration |-> 0]
    /\ fbuf = [b \in FrameBuffers |-> [p \in Pixels |-> Cleared]]
    /\ fdone = {}
    /\ flog = <<[stage |-> "initial", iteration |-> 0]>>
    /\ fread = {}
    /\ ftread = {}
    /\ lastFinal = Cleared

\* an invocation of the initial candidates pass
FInitialCandidates(p) ==
    /\ fpass.stage = "initial"
    /\ p \notin fdone
    /\ fbuf' = [fbuf EXCEPT ![PassOutput(fcfg, fpass)][p] = fpass]
    /\ fdone' = fdone \cup {p}
    /\ UNCHANGED <<fcfg, fpass, flog, fread, ftread, lastFinal,
                   apiVars, kernelVars, pcall, hostVars>>

\* an invocation of the temporal reuse pass: combines the pixel's initial
\* candidates with the reservoir of the reprojected pixel q of the last frame
FTemporalReuse(p, q) ==
    /\ fpass.stage = "temporal"
    /\ p \notin fdone
    /\ fread' =
          fread \cup {fbuf[fcfg.initial_candidates.output_reservoirs][p]}
    /\ ftread' = ftread \cup {fbuf[fcfg.temporal_pass.input_reservoirs][q]}
    /\ fbuf' = [fbuf EXCEPT ![PassOutput(fcfg, fpass)][p] = fpass]
    /\ fdone' = fdone \cup {p}
    /\ UNCHANGED <<fcfg, fpass, flog, lastFinal, apiVars, kernelVars, pcall, hostVars>>

\* an invocation of a spatial reuse iteration, with neighbor q
FSpatialReuse(p, q) ==
    /\ fpass.stage = "spatial"
    /\ p \notin fdone
    /\ fread' =
          fread \cup {fbuf[input_reservoir_buffer(fcfg.spatial_pass)][p],
                      fbuf[input_reservoir_buffer(fcfg.spatial_pass)][q]}
    /\ fbuf' = [fbuf EXCEPT ![PassOutput(fcfg, fpass)][p] = fpass]
    /\ fdone' = fdone \cup {p}
    /\ UNCHANGED <<fcfg, fpass, flog, ftread, lastFinal, apiVars, kernelVars, pcall, hostVars>>

\* the lighting integrator consumes the final reservoir of pixel p
FOutput(p) ==
    /\ fpass.stage = "output"
    /\ p \notin fdone
    /\ fread' = fread \cup {fbuf[fcfg.restir_output_reservoirs][p]}
    /\ fdone' = fdone \cup {p}
    /\ UNCHANGED <<fcfg, fpass, fbuf, flog, ftread, lastFinal,
                   apiVars, kernelVars, pcall, hostVars>>

\* the kernel-launch boundary: the host launches the next pass
FBarrier ==
    /\ fpass.stage \in {"initial", "temporal", "spatial"}
    /\ PassComplete(fdone)
    /\ LET nxt == NextStage(fcfg, fpass)
           last_output == PassOutput(fcfg, fpass)
           buffers == PingPongBuffers(nxt.iteration, last_output,
                                      <<"A", fpass.frame % 2>>,
                                      <<"B", fpass.frame % 2>>)
       IN  /\ fpass' = [frame |-> fpass.frame, stage |-> nxt.stage,
                        iteration |-> nxt.iteration]
           /\ fcfg' =
                 IF nxt.stage = "spatial"
                 THEN [fcfg EXCEPT
                          !.spatial_pass.input_reservoirs = buffers.input,
                          !.spatial_pass.output_reservoirs = buffers.output]
                 ELSE IF nxt.stage = "output"
                 THEN [fcfg EXCEPT !.restir_output_reservoirs = last_output]
                 ELSE fcfg
           /\ flog' = Append(flog, nxt)
    /\ fdone' = {}
    /\ fread' = {}
    /\ UNCHANGED <<fbuf, ftread, lastFinal, apiVars, kernelVars, pcall, hostVars>>

\* the frame is over; the next one starts with the settings of the moment
FEndFrame ==
    /\ fpass.stage = "output"
    /\ PassComplete(fdone)
    /\ fpass.frame + 1 < MaxFrames
    /\ \E c \in FrameChoices :
          fcfg' = ReSTIRDISettings(fpass.frame + 1, c.temporal, c.spatial,
                                   c.passes, fcfg.restir_output_reservoirs)
    /\ fpass' = [frame |-> fpass.frame + 1, stage |-> "initial",
                 iteration |-> 0]
    /\ lastFinal' = [frame |-> fpass.frame,
                     stage |-> flog[Len(flog) - 1].stage,
                     iteration |-> flog[Len(flog) - 1].iteration]
    /\ flog' = <<[stage |-> "initial", iteration |-> 0]>>
    /\ fdone' = {}
    /\ fread' = {}
    /\ ftread' = {}
    /\ UNCHANGED <<fbuf, apiVars, kernelVars, pcall, hostVars>>

\* ------------------------------- the target function, called on its own
MaxDistance == 2
MaxLuminance == 2

\* the sample and surface configurations the function is called on
TargetFunctionInputs ==
    [withVisibility : BOOLEAN,
     distance_to_light : {FInt(i) : i \in 0..MaxDistance},
     bsdf : {FInt(i) : i \in 0..MaxLuminance},
     dot : {FInt(-1), FZero, <<1, 2>>, FOne},
     cosine_at_light : {FInt(-1), FZero, FOne},
     geometry_term_in_target_function : BOOLEAN,
     occluder : BOOLEAN,
     max_keeps_nan : BOOLEAN,
     bsdf_keeps_nan : BOOLEAN]

InitTargetFunction ==
    \E g \in TargetFunctionInputs :
        pcall = [fn |-> "ReSTIR_DI_evaluate_target_function", args |-> g,
                 done |-> FALSE, out |-> <<>>]

\* ReSTIR_DI_evaluate_target_function<withVisibility> runs
EvaluateTargetFunction ==
    /\ pcall.fn = "ReSTIR_DI_evaluate_target_function"
    /\ ~pcall.done
    /\ pcall' = [pcall EXCEPT
                    !.done = TRUE,
                    !.out = evaluate_target_function(
                                pcall.args.withVisibility,
                                target_function_luminance(pcall.args),
                                evaluate_shadow_ray(pcall.args.occluder,
                                    pcall.args.distance_to_light))]
    /\ UNCHANGED <<apiVars, kernelVars, frameVars, hostVars>>

\* ------------------------------------- the principled BSDF, evaluated
\* Principled.h. Colors are followed by one channel. What the lobes' own
\* evaluations return for the directions (value and pdf of a lobe, Fresnel
\* reflectance towards the layer below) is an input, lobes.
internal_eval_layer_ignoring_throughput(weight, proba, lobes, layer) ==
    IF FLt(FZero, weight)
    THEN [contribution |-> FMul(lobes.value, weight),
          out_cumulative_pdf |->
              FAdd(layer.out_cumulative_pdf, FMul(lobes.pdf, proba)),
          evaluated |-> TRUE]
    ELSE [contribution |-> FZero,
          out_cumulative_pdf |-> layer.out_cumulative_pdf,
          evaluated |-> FALSE]

internal_eval_layer(weight, proba, lobes, layer) ==
    IF FLt(FZero, weight)
    THEN [contribution |->
              FMul(FMul(lobes.value, weight), layer.layers_throughput),
          out_cumulative_pdf |->
              FAdd(layer.out_cumulative_pdf, FMul(lobes.pdf, proba)),
          evaluated |-> TRUE]
    ELSE [contribution |-> FZero,
          out_cumulative_pdf |-> layer.out_cumulative_pdf,
          evaluated |-> FALSE]

\* the blending weights of the lobes, in the order coat, sheen, metal,
\* specular, diffuse
lobe_weights_both_sides(material, outside_object) ==
    LET dielectric == FMul(FSub(FOne, material.metallic),
                           FSub(FOne, material.specular_transmission))
    IN  <<material.coat, material.sheen, material.metallic,
          FMul(dielectric, material.specular), dielectric>>

lobe_weights(material, outside_object) ==
    LET side == IF outside_object THEN FOne ELSE FZero
        dielectric == FMul(FSub(FOne, material.metallic),
                           FSub(FOne, material.specular_transmission))
    IN  <<FMul(material.coat, side),
          FMul(material.sheen, side),
          FMul(material.metallic, side),
          FMul(FMul(dielectric, material.specular), side),
          FMul(dielectric, side)>>

\* what a layer leaves of the light for the layers below it
layer_transmission(lobe, material, lobes) ==
    IF lobe = 1
    THEN FAdd(FSub(FOne, material.coat),
              FMul(material.coat, FSub(FOne, lobes.fresnel)))
    ELSE IF lobe = 2
    THEN FSub(FOne, FMul(material.sheen, lobes.fresnel))
    ELSE IF lobe = 4
    THEN FSub(FOne, FMul(material.specular, lobes.fresnel))
    ELSE FOne

\* what the evaluation of a lobe hands to its layer: the specular lobe is
\* colored by the specular tint (line 378), the others are taken as they are
lobe_value(lobe, lobes) ==
    IF lobe = 4 THEN FMul(lobes.value, lobes.specular_tint) ELSE lobes.value

\* the layers from lobe on, with the color, throughput and pdf so far;
\* layers records, for each layer in the order of the calls, what it was
\* given and what it left
RECURSIVE eval_layers(_, _, _, _, _, _)
eval_layers(lobe, weights, probas, material, lobes, acc) ==
    IF lobe > 5 THEN acc
    ELSE LET layer == internal_eval_layer(weights[lobe], probas[lobe],
                          [lobes EXCEPT !.value = lobe_value(lobe, lobes)],
                          [layers_throughput |-> acc.layers_throughput,
                           out_cumulative_pdf |-> acc.pdf])
             layers_throughput ==
                 IF layer.evaluated
                 THEN FMul(acc.layers_throughput,
                          layer_transmission(lobe, material, lobes))
                 ELSE acc.layers_throughput
         IN  eval_layers(lobe + 1, weights, probas, material, lobes,
                 [final_color |-> FAdd(acc.final_color, layer.contribution),
                  pdf |-> layer.out_cumulative_pdf,
                  layers_throughput |-> layers_throughput,
                  evaluated |->
                      IF layer.evaluated THEN acc.evaluated \cup {lobe}
                      ELSE acc.evaluated,
                  layers |->
                      Append(acc.layers,
                          [lobe |-> lobe,
                           contribution |-> layer.contribution,
                           throughput_before |-> acc.layers_throughput,
                           throughput_after |-> layers_throughput,
                           pdf_before |-> acc.pdf,
                           pdf_after |-> layer.out_cumulative_pdf])])

\* principled_bsdf_eval: the color returned, the pdf, the weights it gave
\* the lobes and the lobes it evaluated
principled_bsdf_eval(material, view_dot_normal, lobes) ==
    LET outside_object == FLt(FZero, view_dot_normal)
        weights == lobe_weights(material, outside_object)
        probability_normalize_factor ==
            FAdd(FAdd(FAdd(FAdd(weights[1], weights[2]), weights[3]),
                      weights[4]), weights[5])
        probas == [i \in 1..5 |->
                      FDiv(weights[i], probability_normalize_factor)]
        result == eval_layers(1, weights, probas, material, lobes,
                      [final_color |-> FZero, pdf |-> FZero,
                       layers_throughput |-> FOne, evaluated |-> {},
                       layers |-> <<>>])
    IN  [final_color |-> result.final_color, pdf |-> result.pdf,
         weights |-> weights, evaluated |-> result.evaluated,
         outside_object |-> outside_object, layers |-> result.layers]

\* the parameters of a material, each in [0, 1]
MaterialParameters == {FZero, <<1, 2>>, FOne}

Materials ==
    [coat : MaterialParameters, sheen : {FZero, FOne},
     metallic : MaterialParameters,
     specular_transmission : MaterialParameters,
     specular : MaterialParameters]

\* what the evaluation of a lobe returns for a light direction
LobeEvaluations ==
    [value : {FZero, FOne}, pdf : {FOne, FInt(2)}, fresnel : {<<1, 2>>},
     specular_tint : {<<1, 2>>}]

InitPrincipledEval ==
    \E material \in Materials, lobes \in LobeEvaluations,
       view_dot_normal \in {FInt(-1), FZero, FOne} :
        pcall = [fn |-> "principled_bsdf_eval",
                 args |-> [material |-> material, lobes |-> lobes,
                           view_dot_normal |-> view_dot_normal],
                 done |-> FALSE, out |-> <<>>]

\* principled_bsdf_eval runs
PrincipledBsdfEval ==
    /\ pcall.fn = "principled_bsdf_eval"
    /\ ~pcall.done
    /\ pcall' = [pcall EXCEPT
                    !.done = TRUE,
                    !.out = principled_bsdf_eval(pcall.args.material,
                                pcall.args.view_dot_normal,
                                pcall.args.lobes)]
    /\ UNCHANGED <<apiVars, kernelVars, frameVars, hostVars>>

\* --------------------------------------- the principled BSDF, sampled
\* line 520-527: the weights of the lobes before they are normalized
sample_lobe_weights(material, outside_object) ==
    LET side == IF outside_object THEN FOne ELSE FZero
        dielectric == RMul(RSub(FOne, material.metallic),
                           RSub(FOne, material.specular_transmission))
    IN  <<RMul(material.coat, side),
          RMul(material.sheen, side),
          RMul(material.metallic, side),
          RMul(RMul(dielectric, material.specular), side),
          RMul(dielectric, side)>>

normalize_factor_of_one(weights) == FOne

\* line 529
normalize_factor(weights) ==
    RDiv(FOne, RAdd(RAdd(RAdd(RAdd(weights[1], weights[2]), weights[3]),
                         weights[4]), weights[5]))

\* line 530-534: the weights after *= normalize_factor
normalized_weights(weights) ==
    [i \in 1..5 |-> RMul(weights[i], normalize_factor(weights))]

\* line 537-542: cdf[0] to cdf[4], here cdf[1] to cdf[5]
RECURSIVE cdf_entry(_, _)
cdf_entry(weights, i) ==
    IF i = 1 THEN weights[1] ELSE RAdd(cdf_entry(weights, i - 1), weights[i])

sample_cdf(weights) == [i \in 1..5 |-> cdf_entry(weights, i)]

\* line 586-621: the lobe of the first branch rand_1 < cdf[i] taken, 0 when
\* none is
RECURSIVE sampled_lobe_from(_, _, _)
sampled_lobe_from(cdf, rand_1, i) ==
    IF i > 5 THEN 0
    ELSE IF FLt(rand_1, cdf[i]) THEN i
    ELSE sampled_lobe_from(cdf, rand_1, i + 1)

sampled_lobe(cdf, rand_1) == sampled_lobe_from(cdf, rand_1, 1)

sample_result_always_evaluates(below_surface, sampling_glass_lobe, evaluation) ==
    [color |-> evaluation.final_color, pdf |-> evaluation.pdf,
     evaluated |-> TRUE]

\* line 626-637: the rejection of a direction below the surface, then the
\* evaluation of the whole BSDF
sample_result(below_surface, sampling_glass_lobe, evaluation) ==
    IF below_surface /\ ~sampling_glass_lobe
    THEN [color |-> FZero, pdf |-> FZero, evaluated |-> FALSE]
    ELSE [color |-> evaluation.final_color, pdf |-> evaluation.pdf,
          evaluated |-> TRUE]

\* principled_bsdf_sample. direction_dot is dot(output_direction,
\* shading_normal) for the direction the sampled lobe gives; when no branch
\* is taken output_direction is never assigned and the dot is any value.
principled_bsdf_sample(material, view_dot_normal, rand_1, direction_dot, lobes) ==
    LET glass_weight == RMul(RSub(FOne, material.metallic),
                             material.specular_transmission)
        flipped == FEq(glass_weight, FZero) /\ ~FLt(FZero, view_dot_normal)
        outside_object == FLt(FZero, view_dot_normal) \/ flipped
        raw == sample_lobe_weights(material, outside_object)
        weights == normalized_weights(raw)
        cdf == sample_cdf(weights)
        sampling_glass_lobe == FALSE
        result == sample_result(FLt(direction_dot, FZero), sampling_glass_lobe,
                      principled_bsdf_eval(material, view_dot_normal, lobes))
    IN  [raw |-> raw, weights |-> weights, cdf |-> cdf,
         lobe |-> sampled_lobe(cdf, rand_1),
         color |-> result.color, pdf |-> result.pdf,
         evaluated |-> result.evaluated]

\* random numbers of [0, 1), the two floats next to 1 among them
RandomNumbers ==
    {FZero, <<1, 4>>, <<1, 2>>, <<3, 4>>,
     FSub(FOne, <<1, 2 ^ (MantissaBits - 1)>>),
     FSub(FOne, <<1, 2 ^ MantissaBits>>)}

InitPrincipledSample ==
    \E material \in Materials, lobes \in LobeEvaluations,
       view_dot_normal \in {FInt(-1), FZero, FOne},
       rand_1 \in RandomNumbers, direction_dot \in {FInt(-1), FOne} :
        pcall = [fn |-> "principled_bsdf_sample",
                 args |-> [material |-> material, lobes |-> lobes,
                           view_dot_normal |-> view_dot_normal,
                           rand_1 |-> rand_1,
                           direction_dot |-> direction_dot],
                 done |-> FALSE, out |-> <<>>]

\* principled_bsdf_sample runs
PrincipledBsdfSample ==
    /\ pcall.fn = "principled_bsdf_sample"
    /\ ~pcall.done
    /\ pcall' = [pcall EXCEPT
                    !.done = TRUE,
                    !.out = principled_bsdf_sample(pcall.args.material,
                                pcall.args.view_dot_normal,
                                pcall.args.rand_1,
                                pcall.args.direction_dot,
                                pcall.args.lobes)]
    /\ UNCHANGED <<apiVars, kernelVars, frameVars, hostVars>>

\* ------------------------------------------- the path tracer kernel
\* path_tracer_kernel.h, what PathTracerKernel does to the accumulation
\* buffers of a pixel. Colors are followed by their luminance. The launch
\* grid and the guard are those of the spatial reuse kernel.
LOW_RESOLUTION_RENDER_DOWNSCALE == 8

\* 1.96f squared
ConfidenceFactorSquared == <<2401, 625>>

\* line 438-444, both sides of the comparison squared: the square root of a
\* negative variance is NaN and compares false
pixel_needs_sampling(pixel_sample_count, luminance, squared_luminance, threshold) ==
    LET average_luminance == FDiv(luminance, FInt(pixel_sample_count + 1))
        pixel_variance ==
            FDiv(FSub(squared_luminance, FMul(luminance, average_luminance)),
                 FInt(pixel_sample_count))
    IN  /\ ~IsNegative(pixel_variance)
        /\ FLt(FMul(FMul(threshold, threshold),
                    FMul(average_luminance, average_luminance)),
               FDiv(FMul(ConfidenceFactorSquared, pixel_variance),
                    FInt(pixel_sample_count + 1)))

\* line 428-455: whether the pixel is sampled this frame, and the sample
\* count the call leaves in the buffer
adaptive_sampling(buffers, render_settings, pixel_index) ==
    LET pixel_sample_count == buffers.pixel_sample_count[pixel_index]
    IN  IF pixel_sample_count = -1
        THEN [sampling_needed |-> FALSE,
              pixel_sample_count |-> pixel_sample_count]
        ELSE IF /\ pixel_sample_count
                     > render_settings.adaptive_sampling_min_samples
                /\ ~pixel_needs_sampling(pixel_sample_count,
                       buffers.pixels[pixel_index],
                       buffers.pixel_squared_luminance[pixel_index],
                       render_settings.adaptive_sampling_noise_threshold)
        THEN [sampling_needed |-> FALSE, pixel_sample_count |-> -1]
        ELSE [sampling_needed |-> TRUE,
              pixel_sample_count |-> pixel_sample_count]

\* line 687-712: the pixels the low resolution render copies the pixel at
\* index to, the loop returning at the first one out of the framebuffer
LowResolutionCopies(index, res) ==
    LET D == LOW_RESOLUTION_RENDER_DOWNSCALE
        At(k) == (k \div D) * res.x + (k % D) + index
        Outside == {k \in 1..(D * D - 1) : At(k) >= res.x * res.y}
    IN  {At(k) : k \in {j \in 1..(D * D - 1) : \A o \in Outside : j < o}}

MaxRenderFrames == 4

\* the luminance a frame's samples can add up to
SampleLuminances == {FZero, FInt(2)}

RenderSettings ==
    [sample_number : {0}, samples_per_frame : {1},
     render_low_resolution : BOOLEAN,
     enable_adaptive_sampling : {TRUE},
     adaptive_sampling_min_samples : {0, 1},
     adaptive_sampling_noise_threshold : {FOne}]

PathTracerThread == [pc |-> "start", samples_per_frame |-> 0, squared_luminance_of_samples |-> FZero]

\* the first launch of the kernel: two invocations of the grid, the buffers
\* holding what an earlier render left in them
InitPathTracer ==
    \E render_settings \in RenderSettings, launch \in Launches,
       left \in {-1, 0} :
        pt = [launched |-> TRUE,
              render_settings |-> render_settings,
              frames |-> 0,
              buffers |->
                  [pixels |-> [i \in 0..(PixelCount - 1) |-> FZero],
                   pixel_squared_luminance |->
                       [i \in 0..(PixelCount - 1) |-> FZero],
                   pixel_sample_count |->
                       [i \in 0..(PixelCount - 1) |-> left]],
              threads |-> [id \in launch |-> PathTracerThread]]

PTIndex(id) == PixelIndexOf(id[1], id[2], Res)

PTStep(id, pc, buffers) ==
    pt' = [pt EXCEPT !.threads[id].pc = pc, !.buffers = buffers]

\* line 460-490: the guards, and the reset of the buffers on the first frame
PTStart(id) ==
    /\ pt.launched
    /\ pt.threads[id].pc = "start"
    /\ LET index == PTIndex(id)
           low == pt.render_settings.render_low_resolution
           samples_per_frame ==
               IF low THEN 1 ELSE pt.render_settings.samples_per_frame
       IN  IF \/ OutOfRangeInvocation(id[1], id[2], Res)
              \/ (low /\ (\/ id[1] % LOW_RESOLUTION_RENDER_DOWNSCALE # 0
                          \/ id[2] % LOW_RESOLUTION_RENDER_DOWNSCALE # 0))
           THEN PTStep(id, "done", pt.buffers)
           ELSE pt' = [pt EXCEPT
                   !.threads[id].pc = "adaptive",
                   !.threads[id].samples_per_frame = samples_per_frame,
                   !.buffers =
                       IF pt.render_settings.sample_number = 0
                       THEN [pt.buffers EXCEPT
                                !.pixels[index] = FZero,
                                !.pixel_sample_count[index] = 0,
                                !.pixel_squared_luminance[index] = FZero]
                       ELSE pt.buffers]
    /\ UNCHANGED <<apiVars, kernelVars, frameVars, pcall, options, interop>>

\* line 492-494: the call of adaptive_sampling
PTAdaptiveSampling(id) ==
    /\ pt.launched
    /\ pt.threads[id].pc = "adaptive"
    /\ LET index == PTIndex(id)
           result ==
               IF pt.render_settings.enable_adaptive_sampling
               THEN adaptive_sampling(pt.buffers, pt.render_settings, index)
               ELSE [sampling_needed |-> TRUE,
                     pixel_sample_count |->
                         pt.buffers.pixel_sample_count[index]]
       IN  PTStep(id, IF result.sampling_needed THEN "sample" ELSE "stop",
               [pt.buffers EXCEPT
                   !.pixel_sample_count[index] = result.pixel_sample_count])
    /\ UNCHANGED <<apiVars, kernelVars, frameVars, pcall, options, interop>>

\* line 496-507: the pixel is not sampled, its color is rescaled
PTStopSampling(id) ==
    /\ pt.launched
    /\ pt.threads[id].pc = "stop"
    /\ LET index == PTIndex(id)
           sample_number == pt.render_settings.sample_number
       IN  PTStep(id, "done",
               [pt.buffers EXCEPT
                   !.pixels[index] =
                       FMul(FDiv(@, FInt(sample_number)),
                            FInt(sample_number
                                   + pt.threads[id].samples_per_frame))])
    /\ UNCHANGED <<apiVars, kernelVars, frameVars, pcall, options, interop>>

\* line 511-663: the samples of the frame, added to the color of the pixel
PTAccumulateColor(id) ==
    /\ pt.launched
    /\ pt.threads[id].pc = "sample"
    /\ \E final_color \in SampleLuminances :
         pt' = [pt EXCEPT
                   !.threads[id].pc = "squared",
                   !.threads[id].squared_luminance_of_samples =
                       FMul(final_color, final_color),
                   !.buffers.pixels[PTIndex(id)] = FAdd(@, final_color)]
    /\ UNCHANGED <<apiVars, kernelVars, frameVars, pcall, options, interop>>

\* line 664
PTAccumulateSquaredLuminance(id) ==
    /\ pt.launched
    /\ pt.threads[id].pc = "squared"
    /\ PTStep(id, "count",
           [pt.buffers EXCEPT
               !.pixel_squared_luminance[PTIndex(id)] =
                   FAdd(@, pt.threads[id].squared_luminance_of_samples)])
    /\ UNCHANGED <<apiVars, kernelVars, frameVars, pcall, options, interop>>

\* line 665-713: the sample count, then the copies of the low resolution
\* render
PTAccumulateSampleCount(id) ==
    /\ pt.launched
    /\ pt.threads[id].pc = "count"
    /\ LET index == PTIndex(id)
           counted ==
               [pt.buffers EXCEPT
                   !.pixel_sample_count[index] =
                       @ + pt.threads[id].samples_per_frame]
       IN  PTStep(id, "done",
               IF pt.render_settings.render_low_resolution
               THEN [counted EXCEPT
                        !.pixels =
                            [i \in DOMAIN @ |->
                                IF i \in LowResolutionCopies(index, Res)
                                THEN @[index] ELSE @[i]]]
               ELSE counted)
    /\ UNCHANGED <<apiVars, kernelVars, frameVars, pcall, options, interop>>

PTLaunchDone == \A id \in DOMAIN pt.threads : pt.threads[id].pc = "done"

PTNextLaunch(sample_number) ==
    pt' = [pt EXCEPT
              !.frames = @ + 1,
              !.render_settings.sample_number = sample_number,
              !.threads = [id \in DOMAIN @ |-> PathTracerThread]]

\* the host launches the kernel for the next frame
PTNextFrame ==
    /\ pt.launched
    /\ PTLaunchDone
    /\ pt.frames < MaxRenderFrames
    /\ PTNextLaunch(pt.render_settings.sample_number
                      + pt.render_settings.samples_per_frame)
    /\ UNCHANGED <<apiVars, kernelVars, frameVars, pcall, options, interop>>

\* the host resets the accumulation: the next frame is the first again
PTResetRender ==
    /\ pt.launched
    /\ PTLaunchDone
    /\ pt.frames < MaxRenderFrames
    /\ pt.render_settings.sample_number > 0
    /\ PTNextLaunch(0)
    /\ UNCHANGED <<apiVars, kernelVars, frameVars, pcall, options, interop>>

\* -------------------------------------------- GPUKernelCompilerOptions
\* GPUKernelCompilerOptions.cpp: objects whose two maps give, for the name
\* of a macro, a shared pointer to its int value. A pointer is the address
\* of the int in heap; an int is freed with the last pointer to it.
MaxPointers == 8

\* the calls made on the objects
MaxOptionsCalls == 3

\* the objects of the model: a and b are default-constructed, c is
\* copy-constructed
OptionsObjects == {"a", "b", "c"}

\* ALL_MACROS_NAMES, one name standing for the 21
ALL_MACROS_NAMES == {"InteriorStackStrategy"}

\* the names passed to the functions, in the order the maps are iterated
MacroNames == <<"InteriorStackStrategy", "CustomMacro">>

MacroValues == {0, 1}

\* std::numeric_limits<int>::min()
INT_MIN == -2147483647 - 1

\* the ints the objects of objs point to
PointersOf(objs) ==
    UNION {{objs[o].m_options_macro_map[n] :
                n \in DOMAIN objs[o].m_options_macro_map}
             \cup {objs[o].m_custom_macro_map[n] :
                       n \in DOMAIN objs[o].m_custom_macro_map} :
           o \in DOMAIN objs}

\* std::make_shared<int>: the k-th int to be allocated next to those used
make_shared(used, k) ==
    LET free == (1..MaxPointers) \ used
    IN  CHOOSE a \in free : Cardinality({b \in free : b < a}) = k - 1

\* the ints nothing points to any more are freed
Release(st) ==
    [st EXCEPT !.heap = [a \in PointersOf(st.objects) |-> st.heap[a]]]

\* the constructor, line 69-101
DefaultOptions(pointer) ==
    [m_options_macro_map |-> [n \in ALL_MACROS_NAMES |-> pointer],
     m_custom_macro_map |-> <<>>]

\* line 200-215
get_macro_value(st, o, name) ==
    LET object == st.objects[o]
    IN  IF name \notin DOMAIN object.m_options_macro_map
        THEN IF name \notin DOMAIN object.m_custom_macro_map
             THEN INT_MIN
             ELSE st.heap[object.m_custom_macro_map[name]]
        ELSE st.heap[object.m_options_macro_map[name]]

\* line 163-184
set_macro_value(st, o, name, value) ==
    LET object == st.objects[o]
        pointer == make_shared(DOMAIN st.heap, 1)
    IN  IF name \in ALL_MACROS_NAMES
        THEN IF name \in DOMAIN object.m_options_macro_map
             THEN [st EXCEPT
                      !.heap[object.m_options_macro_map[name]] = value]
             ELSE [st EXCEPT
                      !.heap = @ @@ (pointer :> value),
                      !.objects[o].m_options_macro_map =
                          @ @@ (name :> pointer)]
        ELSE IF name \in DOMAIN object.m_custom_macro_map
             THEN [st EXCEPT
                      !.heap[object.m_custom_macro_map[name]] = value]
             ELSE [st EXCEPT
                      !.heap = @ @@ (pointer :> value),
                      !.objects[o].m_custom_macro_map =
                          @ @@ (name :> pointer)]

\* line 186-190
remove_macro(st, o, name) ==
    Release([st EXCEPT
                !.objects[o].m_custom_macro_map =
                    [n \in DOMAIN @ \ {name} |-> @[n]]])

\* the position of a name in the order of iteration
MacroPosition(name) == CHOOSE k \in DOMAIN MacroNames : MacroNames[k] = name

operator_assign_pointers(st, dst, src) ==
    Release([st EXCEPT !.objects[dst] = st.objects[src]])

\* operator=, line 108-127: a local copy gets a new int for every value of
\* other, this takes the maps of the local copy, and the local copy is
\* returned by value and destroyed by the caller
operator_assign(st, dst, src) ==
    LET other == st.objects[src]
        used == DOMAIN st.heap
        copy ==
            [m_options_macro_map |->
                 [n \in DOMAIN other.m_options_macro_map |->
                     make_shared(used, MacroPosition(n))],
             m_custom_macro_map |->
                 [n \in DOMAIN other.m_custom_macro_map |->
                     make_shared(used, MacroPosition(n))]]
        values ==
            [a \in PointersOf([copy |-> copy]) |->
                IF \E n \in DOMAIN copy.m_options_macro_map :
                       copy.m_options_macro_map[n] = a
                THEN st.heap[other.m_options_macro_map[
                         CHOOSE n \in DOMAIN copy.m_options_macro_map :
                             copy.m_options_macro_map[n] = a]]
                ELSE st.heap[other.m_custom_macro_map[
                         CHOOSE n \in DOMAIN copy.m_custom_macro_map :
                             copy.m_custom_macro_map[n] = a]]]
    IN  Release([st EXCEPT !.heap = values @@ @,
                           !.objects[dst] = copy])

\* a and b as their constructors leave them; whether the build constructs
\* the value operator= returns in place (copy elision) or by the copy
\* constructor
InitOptions ==
    \E value \in MacroValues, elides \in BOOLEAN :
        options = [objects |-> [o \in {"a", "b"} |->
                                   DefaultOptions(IF o = "a" THEN 1 ELSE 2)],
                   heap |-> [a \in {1, 2} |-> value],
                   elides |-> elides,
                   overflow |-> FALSE,
                   calls |-> 0,
                   copies |-> {},
                   last |-> [op |-> "GPUKernelCompilerOptions"]]

\* the program is running and makes another call
OptionsCallable == ~options.overflow /\ options.calls < MaxOptionsCalls

\* set_macro_value(name, value) on object o
OptSetMacroValue(o, name, value) ==
    /\ o \in DOMAIN options.objects
    /\ OptionsCallable
    /\ options' = [set_macro_value(options, o, name, value) EXCEPT
                      !.calls = @ + 1,
                      !.last = [op |-> "set_macro_value", object |-> o,
                                name |-> name, value |-> value]]
    /\ UNCHANGED <<apiVars, kernelVars, frameVars, pcall, pt, interop>>

\* remove_macro(name) on object o
OptRemoveMacro(o, name) ==
    /\ o \in DOMAIN options.objects
    /\ OptionsCallable
    /\ options' = [remove_macro(options, o, name) EXCEPT
                      !.calls = @ + 1,
                      !.last = [op |-> "remove_macro", object |-> o,
                                name |-> name]]
    /\ UNCHANGED <<apiVars, kernelVars, frameVars, pcall, pt, interop>>

\* the value operator= returns is copy-constructed from the local copy when
\* the build does not elide the copy: the copy constructor assigns, the
\* assignment returns by value again, and the calls nest until the stack
\* overflows
OptCopy(dst, src, op) ==
    IF options.elides
    THEN options' = [operator_assign(options, dst, src) EXCEPT
                        !.calls = @ + 1,
                        !.copies = @ \cup {<<dst, src>>},
                        !.last = [op |-> op, dst |-> dst, src |-> src]]
    ELSE options' = [options EXCEPT
                        !.overflow = TRUE,
                        !.last = [op |-> op, dst |-> dst, src |-> src]]

\* dst = src
OptCopyAssign(dst, src) ==
    /\ dst \in DOMAIN options.objects
    /\ src \in DOMAIN options.objects
    /\ OptionsCallable
    /\ OptCopy(dst, src, "operator=")
    /\ UNCHANGED <<apiVars, kernelVars, frameVars, pcall, pt, interop>>

\* line 103-106: dst is constructed as a copy of src
OptCopyConstruct(dst, src) ==
    /\ dst \in OptionsObjects \ DOMAIN options.objects
    /\ src \in DOMAIN options.objects
    /\ OptionsCallable
    /\ LET empty == [m_options_macro_map |-> <<>>,
                     m_custom_macro_map |-> <<>>]
           constructed ==
               [options EXCEPT
                   !.objects = [o \in DOMAIN @ \cup {dst} |->
                                   IF o = dst THEN empty ELSE @[o]]]
       IN  IF options.elides
           THEN options' =
                    [operator_assign(constructed, dst, src) EXCEPT
                        !.calls = @ + 1,
                        !.copies = @ \cup {<<dst, src>>},
                        !.last = [op |-> "copy constructor",
                                  dst |-> dst, src |-> src]]
           ELSE options' = [options EXCEPT
                               !.overflow = TRUE,
                               !.last = [op |-> "copy constructor",
                                         dst |-> dst, src |-> src]]
    /\ UNCHANGED <<apiVars, kernelVars, frameVars, pcall, pt, interop>>

\* ------------------------------------------------------------------------
\* OpenGLInteropBuffer<T>: an OpenGL buffer registered as a graphics resource

NullPointer == 0

MaxElementCount == 2
MaxDevicePointer == 2
MaxInteropCalls == 4

\* sizeof(T) of the buffer's element type
SizeOfT == 4

ElementCounts == 1..MaxElementCount

\* the addresses the driver can map a resource at
DevicePointers == 1..MaxDevicePointer

\* hipGraphicsGLRegisterBuffer: one more resource, registered and not mapped
RegisterBuffer(resources, byte_size) ==
    Append(resources, [registered |-> TRUE, mapped |-> FALSE,
                       pointer |-> NullPointer, size |-> byte_size])

\* hipGraphicsUnregisterResource: the resource is gone, and its mapping with it
UnregisterResource(resources, h) ==
    [resources EXCEPT ![h] = [@ EXCEPT !.registered = FALSE,
                                       !.mapped = FALSE,
                                       !.pointer = NullPointer]]

\* the resource m_buffer_resource names is registered and mapped
ResourceMapped(b) ==
    /\ b.m_buffer_resource \in DOMAIN b.resources
    /\ b.resources[b.m_buffer_resource].registered
    /\ b.resources[b.m_buffer_resource].mapped

\* the members a constructor leaves without a value can hold any value;
\* no resource is registered by the default constructor
InteropBuffer(initialized, byte_size, pointer) ==
    [constructed       |-> TRUE,
     m_initialized     |-> initialized,
     m_mapped          |-> FALSE,
     m_mapped_pointer  |-> pointer,
     m_byte_size       |-> byte_size,
     m_buffer_resource |-> IF initialized THEN 1 ELSE 0,
     resources         |-> IF initialized
                           THEN RegisterBuffer(<<>>, byte_size) ELSE <<>>,
     returned          |-> NullPointer,
     mappings          |-> 0,
     error             |-> FALSE,
     aborted           |-> FALSE,
     destroyed         |-> FALSE,
     last              |-> "constructor",
     calls             |-> 0]

InitInterop ==
    \E pointer \in {NullPointer} \cup DevicePointers :
        \/ interop = InteropBuffer(FALSE, 0, pointer)
        \/ \E element_count \in ElementCounts :
               interop = InteropBuffer(TRUE, element_count * SizeOfT, pointer)

InteropCallable ==
    /\ interop.constructed
    /\ ~interop.destroyed
    /\ ~interop.aborted
    /\ interop.calls < MaxInteropCalls

\* unmap(): the buffers it can leave. Unmapping a resource that is not mapped
\* is an error of the driver, which the error check either ends the program
\* on or reports before going on.
unmap(b) ==
    IF ~b.m_mapped
    THEN {b}
    ELSE IF ResourceMapped(b)
    THEN {[b EXCEPT !.resources[b.m_buffer_resource].mapped = FALSE,
                    !.resources[b.m_buffer_resource].pointer = NullPointer,
                    !.m_mapped = FALSE,
                    !.m_mapped_pointer = NullPointer]}
    ELSE {[b EXCEPT !.error = TRUE, !.aborted = TRUE],
          [b EXCEPT !.error = TRUE,
                    !.m_mapped = FALSE,
                    !.m_mapped_pointer = NullPointer]}

IResize(new_element_count) ==
    /\ InteropCallable
    /\ LET unregistered ==
               IF interop.m_initialized
               THEN UnregisterResource(interop.resources,
                                       interop.m_buffer_resource)
               ELSE interop.resources
           registered ==
               RegisterBuffer(unregistered, new_element_count * SizeOfT)
       IN  interop' = [interop EXCEPT
               !.resources = registered,
               !.m_buffer_resource = Len(registered),
               !.m_initialized = TRUE,
               !.m_byte_size = new_element_count * SizeOfT,
               !.last = "resize",
               !.calls = @ + 1]
    /\ UNCHANGED <<apiVars, kernelVars, frameVars, pcall, pt, options>>

IMap ==
    /\ InteropCallable
    /\ IF ~interop.m_initialized
       THEN interop' = [interop EXCEPT !.returned = NullPointer,
                                       !.last = "map",
                                       !.calls = @ + 1]
       ELSE IF interop.m_mapped
       THEN interop' = [interop EXCEPT !.returned = interop.m_mapped_pointer,
                                       !.last = "map",
                                       !.calls = @ + 1]
       ELSE \E pointer \in DevicePointers :
                interop' = [interop EXCEPT
                    !.resources[interop.m_buffer_resource].mapped = TRUE,
                    !.resources[interop.m_buffer_resource].pointer = pointer,
                    !.m_mapped_pointer = pointer,
                    !.m_byte_size =
                        interop.resources[interop.m_buffer_resource].size,
                    !.m_mapped = TRUE,
                    !.mappings = @ + 1,
                    !.returned = pointer,
                    !.last = "map",
                    !.calls = @ + 1]
    /\ UNCHANGED <<apiVars, kernelVars, frameVars, pcall, pt, options>>

IUnmap ==
    /\ InteropCallable
    /\ \E b \in unmap(interop) :
           interop' = [b EXCEPT !.last = "unmap", !.calls = @ + 1]
    /\ UNCHANGED <<apiVars, kernelVars, frameVars, pcall, pt, options>>

IDestroy ==
    /\ InteropCallable
    /\ IF interop.m_initialized
       THEN \E b \in unmap(interop) :
                interop' =
                    IF b.aborted
                    THEN [b EXCEPT !.last = "destructor", !.calls = @ + 1]
                    ELSE [b EXCEPT
                             !.resources = UnregisterResource(b.resources,
                                               b.m_buffer_resource),
                             !.destroyed = TRUE,
                             !.last = "destructor",
                             !.calls = @ + 1]
       ELSE interop' = [interop EXCEPT !.destroyed = TRUE,
                                       !.last = "destructor",
                                       !.calls = @ + 1]
    /\ UNCHANGED <<apiVars, kernelVars, frameVars, pcall, pt, options>>

vars == <<apiVars, kernelVars, frameVars, pcall, hostVars>>

Init ==
    /\ InitApi /\ IdleKernel /\ IdleFrame /\ IdlePureCall
    /\ IdlePathTracer /\ IdleOptions /\ IdleInterop

Next ==
    \/ AddOneCandidate
    \/ CombineWith
    \/ SkipZeroUCWNeighbor
    \/ End
    \/ EndWithNormalization
    \/ NewReservoir

Spec == Init /\ [][Next]_vars

\* one spatial reuse pass: two invocations of the kernel, interleaved
InitSpatialPass ==
    /\ InitApi /\ InitKernel /\ IdleFrame /\ IdlePureCall
    /\ IdlePathTracer /\ IdleOptions /\ IdleInterop

NextSpatialPass ==
    \/ \E id \in DOMAIN thr : KReturn(id)
    \/ \E id \in DOMAIN thr : KStart(id)
    \/ \E id \in DOMAIN thr : KNeighborOutOfViewport(id)
    \/ \E id \in DOMAIN thr : KSkipZeroUCW(id)
    \/ \E id \in DOMAIN thr : KCombine(id)
    \/ \E id \in DOMAIN thr : KNormalize(id)
    \/ \E id \in DOMAIN thr : KWrite(id)

SpecSpatialPass == InitSpatialPass /\ [][NextSpatialPass]_vars

InitGrazingLight ==
    /\ InitApi /\ InitKernelIn({"grazing"}, OneRandom) /\ IdleFrame /\ IdlePureCall
    /\ IdlePathTracer /\ IdleOptions /\ IdleInterop

InitSeededPass ==
    /\ InitApi /\ InitKernelIn({"regular"}, Randoms) /\ IdleFrame /\ IdlePureCall
    /\ IdlePathTracer /\ IdleOptions /\ IdleInterop

\* the spatial reuse pass under every sample number and seed
SpecSeededPass == InitSeededPass /\ [][NextSpatialPass]_vars

\* the spatial reuse pass over the scene with grazing light directions
SpecGrazingLight == InitGrazingLight /\ [][NextSpatialPass]_vars

\* the passes of consecutive frames, the invocations of a pass interleaved
InitFrames ==
    /\ InitApi /\ IdleKernel /\ InitFrame /\ IdlePureCall
    /\ IdlePathTracer /\ IdleOptions /\ IdleInterop

NextFrame ==
    \/ \E p \in Pixels : FInitialCandidates(p)
    \/ \E p, q \in Pixels : FTemporalReuse(p, q)
    \/ \E p, q \in Pixels : FSpatialReuse(p, q)
    \/ \E p \in Pixels : FOutput(p)
    \/ FBarrier
    \/ FEndFrame

SpecFrame == InitFrames /\ [][NextFrame]_vars

\* the target function on every sample and surface configuration
InitTargetFunctions ==
    /\ InitApi /\ IdleKernel /\ IdleFrame /\ InitTargetFunction
    /\ IdlePathTracer /\ IdleOptions /\ IdleInterop

NextTargetFunction == EvaluateTargetFunction

SpecTargetFunction == InitTargetFunctions /\ [][NextTargetFunction]_vars

\* the principled BSDF on every material and side of the surface
InitPrincipledEvals ==
    /\ InitApi /\ IdleKernel /\ IdleFrame /\ InitPrincipledEval
    /\ IdlePathTracer /\ IdleOptions /\ IdleInterop

NextPrincipledEval == PrincipledBsdfEval

SpecPrincipledEval == InitPrincipledEvals /\ [][NextPrincipledEval]_vars

\* the sampling of the principled BSDF on every material and random number
InitPrincipledSamples ==
    /\ InitApi /\ IdleKernel /\ IdleFrame /\ InitPrincipledSample
    /\ IdlePathTracer /\ IdleOptions /\ IdleInterop

NextPrincipledSample == PrincipledBsdfSample

SpecPrincipledSample ==
    InitPrincipledSamples /\ [][NextPrincipledSample]_vars

\* the path tracer kernel over consecutive frames, two invocations a frame
InitPathTracers ==
    /\ InitApi /\ IdleKernel /\ IdleFrame /\ IdlePureCall
    /\ InitPathTracer /\ IdleOptions /\ IdleInterop

NextPathTracer ==
    \/ \E id \in DOMAIN pt.threads : PTStart(id)
    \/ \E id \in DOMAIN pt.threads : PTAdaptiveSampling(id)
    \/ \E id \in DOMAIN pt.threads : PTStopSampling(id)
    \/ \E id \in DOMAIN pt.threads : PTAccumulateColor(id)
    \/ \E id \in DOMAIN pt.threads : PTAccumulateSquaredLuminance(id)
    \/ \E id \in DOMAIN pt.threads : PTAccumulateSampleCount(id)
    \/ PTNextFrame
    \/ PTResetRender

SpecPathTracer == InitPathTracers /\ [][NextPathTracer]_vars

\* the copies and the setters of GPUKernelCompilerOptions objects
InitCompilerOptions ==
    /\ InitApi /\ IdleKernel /\ IdleFrame /\ IdlePureCall
    /\ IdlePathTracer /\ InitOptions /\ IdleInterop

NextCompilerOptions ==
    \/ \E o \in OptionsObjects, k \in DOMAIN MacroNames, value \in MacroValues :
          OptSetMacroValue(o, MacroNames[k], value)
    \/ \E o \in OptionsObjects, k \in DOMAIN MacroNames :
          OptRemoveMacro(o, MacroNames[k])
    \/ \E dst, src \in OptionsObjects : OptCopyAssign(dst, src)
    \/ \E dst, src \in OptionsObjects : OptCopyConstruct(dst, src)

SpecCompilerOptions == InitCompilerOptions /\ [][NextCompilerOptions]_vars

\* ------------------------------------------------------------------------
\* calls on one OpenGLInteropBuffer

InitInterops ==
    /\ InitApi /\ IdleKernel /\ IdleFrame /\ IdlePureCall
    /\ IdlePathTracer /\ IdleOptions /\ InitInterop

NextInterop ==
    \/ \E new_element_count \in ElementCounts : IResize(new_element_count)
    \/ IMap
    \/ IUnmap
    \/ IDestroy

SpecInterop == InitInterops /\ [][NextInterop]_vars

\* ------------------------------------------------------------------ C1
\* C1: after any sequence of add_one_candidate and combine_with calls on a
\* fresh reservoir, weight_sum is the sum of every weight passed to
\* add_one_candidate plus every mis * tf * other.UCW * jacobian of a
\* combine_with, and M is the number of add_one_candidate calls plus the sum
\* of other.M, whatever random numbers were drawn (plus the M of the
\* neighbors the spatial reuse loop skipped, when there were any).
WeightSumConservation ==
    /\ r.weight_sum = sumW
    /\ r.M = nAdd + sumOtherM + sumSkippedM

\* two reservoirs combined into a fresh one, and a mixed chain
WeightSumConservationWitness ==
    /\ nops >= 2
    /\ sumSkippedM = 0
    /\ sumOtherM >= 2
    /\ FLt(FZero, sumW)
    /\ IsFinite(sumW)
    /\ call.op = "combine_with"
    /\ ~call.ret

\* ------------------------------------------------------------------ C2
\* C2: when only candidates were streamed into a fresh reservoir and their
\* weights sum to a positive finite value, the probability (over the uniform
\* random numbers) that candidate k is the stored sample is
\* weight_k / sum of the weights; the sample actually stored is one that
\* has positive probability.
ReservoirUnbiasedness ==
    (Len(cands) = nops /\ nops > 0 /\ FLt(FZero, FSum(cands))) =>
        /\ \A k \in 1..Len(cands) : dist[k] = FDiv(cands[k], FSum(cands))
        /\ r.sample.emissive_triangle_index \in 1..nops
        /\ FLt(FZero, dist[r.sample.emissive_triangle_index])

\* three candidates of different positive weights, the first one retained
ReservoirUnbiasednessWitness ==
    /\ Len(cands) = 3
    /\ nops = 3
    /\ cands[1] = FOne
    /\ cands[2] = FInt(2)
    /\ cands[3] = FOne
    /\ dist[1] = <<1, 4>>
    /\ r.sample.emissive_triangle_index = 1

\* ------------------------------------------------------------------ C3
\* C3: for a reservoir built from non-negative, non-NaN weights, end() and
\* end_with_normalization() leave a UCW that is neither negative nor NaN;
\* a zero weight_sum gives UCW = 0, and so does a zero numerator or
\* denominator of end_with_normalization.
UCWNonNegativity ==
    (Ended /\ valid) =>
        /\ ~IsNaN(r.UCW)
        /\ ~IsNegative(r.UCW)
        /\ (r.weight_sum = FZero => r.UCW = FZero)
        /\ (call.op = "end_with_normalization"
              /\ (call.num = FZero \/ call.den = FZero) => r.UCW = FZero)

\* a positive weight_sum finalized with a zero denominator
UCWNonNegativityWitness ==
    /\ call.op = "end_with_normalization"
    /\ valid
    /\ FLt(FZero, r.weight_sum)
    /\ FLt(FZero, r.sample.target_function)
    /\ call.den = FZero
    /\ FLt(FZero, call.num)
    /\ r.UCW = FZero

\* ------------------------------------------------------------------ C4
\* C4: a fresh reservoir fed exactly one candidate of weight 1 and finalized
\* with end() has UCW = 1 / sample.target_function when that target function
\* is positive and UCW = 0 when it is zero.
SingleCandidateUCW ==
    (call.op = "end" /\ nops = 1 /\ cands = <<FOne>>) =>
        /\ FLt(FZero, r.sample.target_function) =>
              r.UCW = FDiv(FOne, r.sample.target_function)
        /\ r.sample.target_function = FZero => r.UCW = FZero

\* ------------------------------------------------------------------ C5
\* C5: combine_with returns true exactly when it replaced the stored sample
\* by other.sample, whose cached target function is then the argument and
\* not the value cached in other.sample; when it returns false the stored
\* sample is unchanged. UCW is unchanged either way.
CombineWithFrame ==
    [][call'.op = "combine_with" =>
          /\ r'.UCW = r.UCW
          /\ call'.ret =
               (r'.sample.emissive_triangle_index
                  = call'.sample.emissive_triangle_index)
          /\ call'.ret =>
               r'.sample = [call'.sample EXCEPT !.target_function = call'.tf]
          /\ ~call'.ret => r'.sample = r.sample]_vars

\* an accepted combine whose argument differs from the cached value
CombineWithFrameWitness ==
    /\ call.op = "combine_with"
    /\ call.ret
    /\ call.sample.target_function # call.tf
    /\ r.sample.target_function = call.tf
    /\ r.sample.emissive_triangle_index = call.sample.emissive_triangle_index
    /\ nops >= 2

\* ------------------------------------------------------------------ C6
\* C6: within one resampling chain (add_one_candidate, combine_with, the
\* skip of a zero-UCW neighbor) M never decreases from one operation to the
\* next.
MMonotonic ==
    [][call'.op \in {"add_one_candidate", "combine_with", "skip"} =>
          r'.M >= r.M]_vars

\* a chain that used the skip path after M had grown
MMonotonicWitness ==
    /\ call.op = "skip"
    /\ nAdd >= 1
    /\ sumOtherM >= 1
    /\ sumSkippedM = 0
    /\ r.M = nAdd + sumOtherM

\* ------------------------------------------------------------------ C7
\* C7: every reservoir written to the spatial reuse output buffer has
\* M <= m_cap.
OutputMCapped ==
    \A w \in writes : mem[w.buffer][w.index].M <= m_cap

\* ------------------------------------------------------------------ C8
\* C8: an invocation writes only the output reservoir of its own pixel (a
\* pixel of the viewport), no two distinct invocations write the same entry,
\* and nothing but the output buffer is written.
OwnPixelWritesOnly ==
    /\ \A w \in writes :
          /\ w.buffer = settings.spatial_pass.output_reservoirs
          /\ w.by[1] < Res.x
          /\ w.by[2] < Res.y
          /\ w.index = PixelIndexOf(w.by[1], w.by[2], Res)
    /\ \A w1, w2 \in writes :
          (w1.buffer = w2.buffer /\ w1.index = w2.index) => w1.by = w2.by

PassesInOrder ==
    fpass.stage # "idle" =>
        LET temporal ==
                IF fcfg.temporal_pass.do_temporal_reuse_pass
                THEN <<[stage |-> "temporal", iteration |-> 0]>> ELSE <<>>
            spatial ==
                IF fcfg.spatial_pass.do_spatial_reuse_pass
                THEN [k \in 1..fcfg.spatial_pass.number_of_passes |->
                         [stage |-> "spatial", iteration |-> k - 1]]
                ELSE <<>>
            expected ==
                <<[stage |-> "initial", iteration |-> 0]>> \o temporal
                    \o spatial \o <<[stage |-> "output", iteration |-> 0]>>
            n == Len(flog)
        IN  /\ n >= 1
            /\ n <= Len(expected)
            /\ \A i \in 1..n : flog[i] = expected[i]
            /\ flog[n] = [stage |-> fpass.stage, iteration |-> fpass.iteration]
            /\ \A s \in fread :
                  /\ n >= 2
                  /\ s = [frame |-> fpass.frame, stage |-> flog[n - 1].stage,
                          iteration |-> flog[n - 1].iteration]
            /\ \A s \in ftread : s = lastFinal
            /\ fpass.stage = "temporal" =>
                  fcfg.temporal_pass.input_reservoirs
                      = fcfg.restir_output_reservoirs

\* the second frame ran all its passes, after a first frame whose final pass
\* was a spatial reuse iteration, and its output has been consumed
PassesInOrderWitness ==
    /\ fpass.frame = 1
    /\ fpass.stage = "output"
    /\ Len(flog) = 5
    /\ lastFinal.stage = "spatial"
    /\ ftread = {lastFinal}
    /\ fread # {}
    /\ fdone = Pixels

\* ----------------------------------------------------------------- C11
\* C11: an invocation of the spatial reuse kernel finalizes its reservoir
\* exactly once, after the resampling loop has visited every neighbor and
\* before the write; a written entry is the finalized reservoir, and nothing
\* is combined into a reservoir once it is finalized.
FinalizedOnce ==
    /\ \A id \in DOMAIN thr :
          LET t == thr[id]
          IN  /\ t.finalized <= 1
              /\ (t.finalized = 1) <=> (t.pc \in {"finalized", "done"})
              /\ t.finalized = 1 => t.neighbor = Count + 1
              /\ t.pc \in {"launched", "returned"} => t.neighbor = 0
    /\ \A w \in writes :
          /\ thr[w.by].finalized = 1
          /\ thr[w.by].pc = "done"
    /\ \A id \in DOMAIN thr :
          (thr[id].pc = "done" /\ \A w \in writes :
               (w.index = thr[id].pixel_index => w.by = id))
              => mem[output_reservoir_buffer(settings.spatial_pass)]
                    [thr[id].pixel_index] = thr[id].new_reservoir

\* an invocation combined a neighbor and the center pixel, finalized the
\* reservoir and wrote it
FinalizedOnceWitness ==
    \E id \in DOMAIN thr :
        /\ thr[id].pc = "done"
        /\ Count = 1
        /\ thr[id].finalized = 1
        /\ thr[id].selected_neighbor = 0
        /\ FLt(FZero, thr[id].new_reservoir.UCW)
        /\ \E w \in writes : w.by = id

\* ----------------------------------------------------------------- C12
\* C12: with spatial_reuse_neighbor_count = 0 the reservoir a pass writes for
\* a pixel has the sample, the cached target function, the UCW and (up to
\* m_cap) the M of the pixel's input reservoir, whatever the input UCW.
SelfReuseIdentity ==
    Count = 0 =>
        \A w \in writes :
            LET written == mem[w.buffer][w.index]
                input == InputBuffer[w.index]
            IN  /\ written.sample = input.sample
                /\ FEq(written.UCW, input.UCW)
                /\ written.M = IF input.M > m_cap THEN m_cap ELSE input.M

\* ----------------------------------------------------------------- C13
\* C13: in the resampling loop a neighbor outside of the viewport leaves the
\* reservoir untouched, a neighbor with UCW = 0 only adds its M (the stored
\* sample, weight_sum and selected neighbor stay as they are), and after
\* every step the M of the new reservoir is the sum of the input M of the
\* in-viewport pixels visited so far, the center included, whatever their UCW.
SkippedNeighborsCountM ==
    [][\A id \in DOMAIN thr :
          LET t == thr[id]
              after == thr'[id]
              idx == NeighborIndex(t)
              visited == after.neighbor
              sumM[n \in 0..visited] ==
                  IF n = 0 THEN 0
                  ELSE LET i == get_neighbor_pixel_index(n - 1, Count,
                                    after.center, Res, after.offs)
                       IN  sumM[n - 1] + (IF i = -1 THEN 0 ELSE InputBuffer[i].M)
          IN  /\ (t.pc = "resample" /\ after.neighbor = t.neighbor + 1
                    /\ idx = -1)
                   => /\ after.new_reservoir = t.new_reservoir
                      /\ after.selected_neighbor = t.selected_neighbor
              /\ (t.pc = "resample" /\ after.neighbor = t.neighbor + 1
                    /\ idx # -1 /\ FEq(InputBuffer[idx].UCW, FZero))
                   => /\ after.new_reservoir =
                            [t.new_reservoir EXCEPT !.M = @ + InputBuffer[idx].M]
                      /\ after.selected_neighbor = t.selected_neighbor
              /\ after.pc \in {"resample", "finalized", "done"}
                   => after.new_reservoir.M = sumM[visited]
      ]_vars

\* an invocation went through the loop with a neighbor of UCW = 0 and M > 0
\* in the viewport, and a center pixel that it combined
SkippedNeighborsCountMWitness ==
    \E id \in DOMAIN thr :
        LET t == thr[id]
            idx == get_neighbor_pixel_index(0, Count, t.center, Res, t.offs)
        IN  /\ Count = 1
            /\ t.pc = "finalized"
            /\ idx # -1
            /\ idx # t.pixel_index
            /\ FEq(InputBuffer[idx].UCW, FZero)
            /\ InputBuffer[idx].M > 0
            /\ ~FEq(InputBuffer[t.pixel_index].UCW, FZero)
            /\ t.new_reservoir.M
                 = InputBuffer[idx].M + InputBuffer[t.pixel_index].M

\* ----------------------------------------------------------------- C14
\* C14: the reservoir of a neighbor whose surface fails a similarity
\* heuristic against the center surface is never passed to combine_with.
OnlySimilarNeighborsCombined ==
    \A id \in DOMAIN thr :
        \A idx \in thr[id].combined :
            SurfacesSimilar(thr[id].pixel_index, idx)

\* ----------------------------------------------------------------- C15
\* C15: MIS-like policy. The finalized reservoir's numerator is the target
\* function of the selected sample at the selected neighbor times that
\* neighbor's input M, its denominator is the sum, over the in-viewport
\* resampled pixels where the selected sample has a non-zero target function,
\* of target function times input M, and its UCW is
\* 1 / target_function * weight_sum * numerator / denominator; with a
\* weight_sum of 0 the numerator, the denominator and the UCW are 0.
MisLikeNormalization ==
    \A id \in DOMAIN thr :
        LET t == thr[id]
            res == t.new_reservoir
            index(n) == get_neighbor_pixel_index(n, Count, t.center, Res, t.offs)
            tfAt(n) ==
                IF n = Count THEN res.sample.target_function
                ELSE ReSTIR_DI_evaluate_target_function(
                         settings.biasVisibility, res.sample, index(n))
            term(n) ==
                IF index(n) = -1 \/ FEq(tfAt(n), FZero) THEN FZero
                ELSE FMul(tfAt(n), FInt(InputBuffer[index(n)].M))
            denom[n \in 0..(Count + 1)] ==
                IF n = 0 THEN FZero ELSE FAdd(denom[n - 1], term(n - 1))
        IN  t.pc \in {"finalized", "done"} =>
                IF FEq(res.weight_sum, FZero)
                THEN /\ FEq(t.mis_like_nume, FZero)
                     /\ FEq(t.mis_like_denom, FZero)
                     /\ FEq(res.UCW, FZero)
                ELSE /\ FEq(t.mis_like_nume, term(t.selected_neighbor))
                     /\ FEq(t.mis_like_denom, denom[Count + 1])
                     /\ FEq(res.UCW,
                            IF FEq(t.mis_like_nume, FZero) THEN FZero
                            ELSE FMul(FMul(FDiv(FOne, res.sample.target_function),
                                           res.weight_sum),
                                      FDiv(t.mis_like_nume, t.mis_like_denom)))

\* an invocation selected the sample of a neighbor other than the center and
\* finalized with a denominator fed by the neighbor and by the center
MisLikeNormalizationWitness ==
    \E id \in DOMAIN thr :
        LET t == thr[id]
        IN  /\ t.pc = "finalized"
            /\ Count = 1
            /\ t.selected_neighbor = 0
            /\ get_neighbor_pixel_index(0, Count, t.center, Res, t.offs)
                 \notin {-1, t.pixel_index}
            /\ FLt(FZero, t.mis_like_nume)
            /\ FLt(t.mis_like_nume, t.mis_like_denom)
            /\ FLt(FZero, t.new_reservoir.UCW)

\* ----------------------------------------------------------------- C16
\* C16 as stated: Z is the number of resampled pixels (in-viewport neighbors
\* and center) where the selected sample has a non-zero target function.
ZCountsPixels ==
    \A id \in DOMAIN thr :
        LET t == thr[id]
            index(n) == get_neighbor_pixel_index(n, Count, t.center, Res, t.offs)
            tfAt(n) ==
                IF n = Count THEN t.new_reservoir.sample.target_function
                ELSE ReSTIR_DI_evaluate_target_function(
                         settings.biasVisibility, t.new_reservoir.sample,
                         index(n))
        IN  (t.pc \in {"finalized", "done"}
               /\ FLt(FZero, t.new_reservoir.weight_sum))
              => FEq(t.Z, FInt(Cardinality(
                     {n \in 0..Count :
                         index(n) # -1 /\ ~FEq(tfAt(n), FZero)})))

\* C16, amended: Z is the sum of the input M of the resampled pixels
\* (in-viewport neighbors and center) where the selected sample has a
\* non-zero target function, and 0 when the reservoir's weight_sum is 0.
ZSumsConfidence ==
    \A id \in DOMAIN thr :
        LET t == thr[id]
            index(n) == get_neighbor_pixel_index(n, Count, t.center, Res, t.offs)
            tfAt(n) ==
                IF n = Count THEN t.new_reservoir.sample.target_function
                ELSE ReSTIR_DI_evaluate_target_function(
                         settings.biasVisibility, t.new_reservoir.sample,
                         index(n))
            sumM[n \in 0..(Count + 1)] ==
                IF n = 0 THEN 0
                ELSE sumM[n - 1]
                       + (IF index(n - 1) = -1 \/ FEq(tfAt(n - 1), FZero)
                          THEN 0 ELSE InputBuffer[index(n - 1)].M)
        IN  t.pc \in {"finalized", "done"} =>
                FEq(t.Z, IF FLt(FZero, t.new_reservoir.weight_sum)
                         THEN FInt(sumM[Count + 1]) ELSE FZero)

\* an invocation finalized with a Z fed by a neighbor and by the center,
\* whose input M are not both 1
ZSumsConfidenceWitness ==
    \E id \in DOMAIN thr :
        LET t == thr[id]
            idx == get_neighbor_pixel_index(0, Count, t.center, Res, t.offs)
        IN  /\ t.pc = "finalized"
            /\ Count = 1
            /\ idx \notin {-1, t.pixel_index}
            /\ FEq(t.Z, FInt(InputBuffer[idx].M + InputBuffer[t.pixel_index].M))
            /\ FLt(FInt(2), t.Z)

\* ----------------------------------------------------------------- C17
\* C17: the variant with visibility returns the value of the variant without
\* when the shadow ray is free and 0 when it is occluded, and traces a shadow
\* ray exactly when the value of the variant without is not 0.
VisibilityVariantAgrees ==
    (pcall.fn = "ReSTIR_DI_evaluate_target_function" /\ pcall.done
       /\ pcall.args.withVisibility)
      => LET without ==
                 evaluate_target_function(FALSE,
                     target_function_luminance(pcall.args), FALSE)
             occluded ==
                 evaluate_shadow_ray(pcall.args.occluder,
                                     pcall.args.distance_to_light)
         IN  /\ without.shadow_rays = 0
             /\ pcall.out.value = IF occluded THEN FZero ELSE without.value
             /\ (pcall.out.shadow_rays = 1) <=> (without.value # FZero)
             /\ pcall.out.shadow_rays \in {0, 1}

\* the variant with visibility was evaluated on an occluded sample with a
\* positive target function, and returned 0 after one shadow ray
VisibilityVariantAgreesWitness ==
    /\ pcall.fn = "ReSTIR_DI_evaluate_target_function"
    /\ pcall.done
    /\ pcall.args.withVisibility
    /\ pcall.args.occluder
    /\ pcall.args.geometry_term_in_target_function
    /\ FLt(FZero, target_function_luminance(pcall.args))
    /\ pcall.out = [value |-> FZero, shadow_rays |-> 1]

\* ----------------------------------------------------------------- C18
\* C18: when every reservoir of the input buffer passes the sanity check,
\* every reservoir the spatial reuse pass has written passes it too, in every
\* scene, the one with grazing light directions included.
WrittenReservoirsSane ==
    (\A i \in DOMAIN InputBuffer : sanity_check(InputBuffer[i]))
      => \A w \in writes : sanity_check(mem[w.buffer][w.index])

\* ----------------------------------------------------------------- C19
\* C19: the reservoir written for a pixel is a function of the input buffer,
\* the G-buffer, the settings, the pixel index, the sample number and the
\* seed: two invocations of a launch that were given the same pixel index,
\* and so the same seed and the same random numbers, have written the same
\* reservoir, so that the entry does not depend on which of them wrote last.
WrittenReservoirOfPixel ==
    \A id1 \in DOMAIN thr, id2 \in DOMAIN thr :
        (/\ thr[id1].pc = "done"
         /\ thr[id2].pc = "done"
         /\ thr[id1].pixel_index = thr[id2].pixel_index)
          => /\ thr[id1].seed = thr[id2].seed
             /\ thr[id1].new_reservoir = thr[id2].new_reservoir

\* ----------------------------------------------------------------- C20
\* C20: when the view direction is not in the hemisphere of the shading
\* normal, principled_bsdf_eval gives the coat, sheen, metal, specular and
\* diffuse lobes the weight 0, evaluates none of them and returns the zero
\* color and the pdf 0, whatever the material and the light direction.
InsideObjectLobesOff ==
    (pcall.fn = "principled_bsdf_eval" /\ pcall.done
       /\ ~FLt(FZero, pcall.args.view_dot_normal))
      => /\ \A lobe \in 1..5 : pcall.out.weights[lobe] = FZero
         /\ pcall.out.evaluated = {}
         /\ pcall.out.final_color = FZero
         /\ pcall.out.pdf = FZero

\* the function was evaluated from below the surface of a material that has
\* every lobe, for a light direction the lobes give a positive value
InsideObjectLobesOffWitness ==
    /\ pcall.fn = "principled_bsdf_eval"
    /\ pcall.done
    /\ pcall.args.view_dot_normal = FInt(-1)
    /\ pcall.args.material.coat = FOne
    /\ pcall.args.material.sheen = FOne
    /\ pcall.args.material.metallic = <<1, 2>>
    /\ pcall.args.material.specular_transmission = FZero
    /\ pcall.args.material.specular = FOne
    /\ pcall.args.lobes.value = FOne
    /\ pcall.out.final_color = FZero
    /\ pcall.out.pdf = FZero

\* ----------------------------------------------------------------- C21
\* the sum of the five weights before normalization is positive
PositiveWeightSum ==
    /\ pcall.fn = "principled_bsdf_sample"
    /\ pcall.done
    /\ \A i \in 1..5 : IsFinite(pcall.out.raw[i])
    /\ \E i \in 1..5 : FLt(FZero, pcall.out.raw[i])

\* the normalized weights are not negative and the CDF does not decrease
CdfMonotone ==
    /\ \A i \in 1..5 : IsFinite(pcall.out.weights[i])
                         /\ ~IsNegative(pcall.out.weights[i])
    /\ \A i \in 1..4 : ~FLt(pcall.out.cdf[i + 1], pcall.out.cdf[i])

ExactlyOneLobeSampled ==
    PositiveWeightSum
      => LET lobe == pcall.out.lobe
             cdf == pcall.out.cdf
             rand_1 == pcall.args.rand_1
         IN  /\ lobe \in 1..5
             /\ FLt(rand_1, cdf[lobe])
             /\ lobe > 1 => ~FLt(rand_1, cdf[lobe - 1])
             /\ FLt(FZero, pcall.out.weights[lobe])
             /\ (/\ pcall.args.material.metallic = FOne
                 /\ pcall.args.material.coat = FZero
                 /\ pcall.args.material.sheen = FZero)
                  => (lobe = 3 /\ pcall.out.raw[5] = FZero)

\* ----------------------------------------------------------------- C23
\* C23: when the direction sampled is below the shading normal, and the
\* glass lobe was not sampled, principled_bsdf_sample returns the zero color
\* and the pdf 0 and does not evaluate the BSDF.
RejectedBelowSurface ==
    (pcall.fn = "principled_bsdf_sample" /\ pcall.done
       /\ FLt(pcall.args.direction_dot, FZero))
      => /\ pcall.out.color = FZero
         /\ pcall.out.pdf = FZero
         /\ ~pcall.out.evaluated

\* a lobe was sampled from above the surface, its direction is below the
\* shading normal, and the evaluation would have returned a positive color
RejectedBelowSurfaceWitness ==
    /\ pcall.fn = "principled_bsdf_sample"
    /\ pcall.done
    /\ FLt(pcall.args.direction_dot, FZero)
    /\ pcall.out.lobe \in 1..5
    /\ FLt(FZero, principled_bsdf_eval(pcall.args.material,
                      pcall.args.view_dot_normal,
                      pcall.args.lobes).final_color)
    /\ pcall.out.color = FZero
    /\ ~pcall.out.evaluated

\* ----------------------------------------------------------------- C24
\* C24: principled_bsdf_eval goes through the layers in the order coat,
\* sheen, metal, specular, diffuse, the throughput being white before the
\* first; a layer of positive weight contributes the value of its lobe times
\* its weight times the throughput it was given, and a layer of weight zero
\* contributes nothing and leaves the throughput and the pdf as they were.
LayersInOrder ==
    (pcall.fn = "principled_bsdf_eval" /\ pcall.done)
      => LET layers == pcall.out.layers
             weights == pcall.out.weights
         IN  /\ Len(layers) = 5
             /\ layers[1].throughput_before = FOne
             /\ layers[1].pdf_before = FZero
             /\ \A i \in 1..5 :
                  /\ layers[i].lobe = i
                  /\ i > 1 => /\ layers[i].throughput_before
                                   = layers[i - 1].throughput_after
                              /\ layers[i].pdf_before
                                   = layers[i - 1].pdf_after
                  /\ FLt(FZero, weights[i])
                       => FEq(layers[i].contribution,
                              FMul(FMul(lobe_value(i, pcall.args.lobes),
                                        weights[i]),
                                   layers[i].throughput_before))
                  /\ weights[i] = FZero
                       => /\ layers[i].contribution = FZero
                          /\ layers[i].throughput_after
                               = layers[i].throughput_before
                          /\ layers[i].pdf_after = layers[i].pdf_before
             /\ pcall.out.pdf = layers[5].pdf_after

\* a coat and a specular layer attenuated the throughput above a diffuse
\* layer that contributed, and the sheen layer of weight zero did nothing
LayersInOrderWitness ==
    /\ pcall.fn = "principled_bsdf_eval"
    /\ pcall.done
    /\ pcall.out.weights[2] = FZero
    /\ FLt(FZero, pcall.out.weights[1])
    /\ FLt(FZero, pcall.out.weights[4])
    /\ FLt(pcall.out.layers[4].throughput_before, FOne)
    /\ FLt(pcall.out.layers[5].throughput_before,
           pcall.out.layers[4].throughput_before)
    /\ FLt(FZero, pcall.out.layers[5].contribution)
    /\ pcall.out.layers[2].throughput_after
         = pcall.out.layers[2].throughput_before

\* ----------------------------------------------------------------- C25
\* C25: with adaptive sampling enabled, a pixel whose sample count is at
\* most adaptive_sampling_min_samples is never deactivated; a deactivated
\* pixel (pixel_sample_count -1) is given no further samples and stays
\* deactivated on every later frame, until the frame of sample_number 0.
DeactivatedStaysDeactivated ==
    [][pt.launched /\ pt.render_settings.enable_adaptive_sampling
         => \A i \in 0..(PixelCount - 1) :
              LET before == pt.buffers.pixel_sample_count[i]
                  after == pt'.buffers.pixel_sample_count[i]
              IN  /\ (before # -1 /\ after = -1)
                       => before
                            > pt.render_settings.adaptive_sampling_min_samples
                  /\ before = -1
                       => /\ after # -1
                               => pt.render_settings.sample_number = 0
                          /\ \A id \in DOMAIN pt.threads :
                               (PTIndex(id) = i /\ PTAccumulateColor(id))
                                 => pt.render_settings.sample_number = 0]_vars

\* ----------------------------------------------------------------- C26
\* C26: at the end of the resampling loop, when the weight_sum of the new
\* reservoir is > 0, selected_neighbor is the loop index of the neighbor
\* whose input reservoir supplied the sample the reservoir holds, the last
\* one combine_with returned true for.
SelectedNeighborSuppliedSample ==
    \A id \in DOMAIN thr :
        LET t == thr[id]
        IN  (/\ t.pc = "resample"
             /\ t.neighbor = Count + 1
             /\ FLt(FZero, t.new_reservoir.weight_sum))
              => /\ t.supplier # -1
                 /\ t.selected_neighbor \in 0..Count
                 /\ get_neighbor_pixel_index(t.selected_neighbor, Count,
                        t.center, Res, t.offs) = t.supplier
                 /\ t.new_reservoir.sample.emissive_triangle_index
                      = InputBuffer[t.supplier].sample.emissive_triangle_index

BufferReadsInRange ==
    \A id \in DOMAIN thr :
        LET t == thr[id]
            InRange(i) == i \in 0..(PixelCount - 1)
        IN  t.pc \in {"resample", "finalized", "done"}
              => /\ InRange(t.pixel_index)
                 /\ NeighborIndexOfCenter(t) = t.pixel_index
                 /\ (t.pc = "resample" /\ t.neighbor < Count + 1)
                      => (NeighborIndex(t) = -1 \/ InRange(NeighborIndex(t)))
                 /\ \A n \in 1..Len(t.resampled) :
                      t.resampled[n] = -1 \/ InRange(t.resampled[n])
                 /\ \A n \in 1..Len(t.normalized) :
                      t.normalized[n] = -1 \/ InRange(t.normalized[n])

\* an invocation of the column past res.x read its neighbor and its center,
\* and one loop found a neighbor out of the viewport
BufferReadsInRangeWitness ==
    /\ \E id \in DOMAIN thr :
         /\ thr[id].pc = "finalized"
         /\ thr[id].center.x >= Res.x
         /\ Len(thr[id].normalized) = 2
         /\ thr[id].normalized[1] # -1
    /\ \E id \in DOMAIN thr :
         /\ Len(thr[id].resampled) = 2
         /\ thr[id].resampled[1] = -1

\* ----------------------------------------------------------------- C29
\* C29: after a copy assignment or a copy construction both objects report
\* the same value for every macro, and no two objects point to the same
\* int: a set_macro_value on one object leaves what get_macro_value returns
\* on every other object as it was.
CopiesShareNoStorage ==
    [][(~options.overflow /\ ~options'.overflow /\ options' # options)
         => LET names == {MacroNames[k] : k \in DOMAIN MacroNames}
                objects == DOMAIN options'.objects
            IN  /\ \A o, p \in objects :
                     o # p => PointersOf([x \in {o} |-> options'.objects[o]])
                                \cap PointersOf([x \in {p} |->
                                                    options'.objects[p]])
                                = {}
                /\ options'.last.op \in {"operator=", "copy constructor"}
                     => \A n \in names :
                          get_macro_value(options', options'.last.dst, n)
                            = get_macro_value(options', options'.last.src, n)
                /\ options'.last.op = "set_macro_value"
                     => \A p \in objects \ {options'.last.object} :
                          \A n \in names :
                            get_macro_value(options', p, n)
                              = get_macro_value(options, p, n)]_vars

\* an object was copy-constructed from another with a custom macro, and the
\* set_macro_value that followed on one of the two changed the value it
\* reports for the macro, the other still reporting the value copied
CopiesShareNoStorageWitness ==
    /\ ~options.overflow
    /\ DOMAIN options.objects = OptionsObjects
    /\ options.last.op = "set_macro_value"
    /\ \E pair \in options.copies :
         /\ pair[1] # pair[2]
         /\ options.last.object \in {pair[1], pair[2]}
         /\ options.last.name = "CustomMacro"
         /\ get_macro_value(options, pair[1], "CustomMacro") # INT_MIN
         /\ get_macro_value(options, pair[2], "CustomMacro") # INT_MIN
         /\ get_macro_value(options, pair[1], "CustomMacro")
              # get_macro_value(options, pair[2], "CustomMacro")

\* ----------------------------------------------------------------- C30
\* C30: after any calls of map, unmap and resize, m_mapped is true only while
\* the registered graphics resource of the buffer is mapped, and the pointer
\* the last map() returned is the mapped pointer of that resource (null when
\* the buffer is not initialized).
MappedFlagTruthful ==
    (interop.constructed /\ ~interop.destroyed /\ ~interop.aborted) =>
        /\ interop.m_mapped => ResourceMapped(interop)
        /\ interop.last = "map" =>
               IF ~interop.m_initialized
               THEN interop.returned = NullPointer
               ELSE /\ ResourceMapped(interop)
                    /\ interop.returned =
                           interop.resources[interop.m_buffer_resource].pointer

====
